---- MODULE Spec2Model ----
(***************************************************************************)
(* A model of vincent, the voice front end of the opencode CLI:            *)
(*   - the assistant client (src/vincent/opencode_client.py and its older  *)
(*     copy in src/vincent/cli.py): build_opencode_command,                *)
(*     parse_opencode_events, ask_opencode;                                *)
(*   - the session store and the turn loop run_voice_chat                  *)
(*     (src/vincent/cli.py, and the standalone script src/voice_chat.py);  *)
(*   - parse_args, capture_turn and record_wav_until_enter with its        *)
(*     wait_for_enter threads, each called on its own.                     *)
(*                                                                         *)
(* Representation.  A Python str is a tuple of tokens.  A token is a TLA+  *)
(* string: one character (" ", "\n", "q", ...) or an atom that stands for  *)
(* a run of characters holding no whitespace at its ends: a JSON text      *)
(* ("{\"type\":\"text\"}") or a literal of the source ("--session").       *)
(* Python's None is the one-token tuple <<"None">>, which no str of the    *)
(* model equals.  A decoded JSON value is a record tagged by its field t.  *)
(***************************************************************************)
EXTENDS Integers, Sequences, FiniteSets, TLC

VARIABLES
    \* the assistant client, called on its own
    output,         \* parse_opencode_events: its argument
    parsed,         \* parse_opencode_events: its result, or Pending
    options,        \* ask_opencode: the OpenCodeRunOptions
    asked,          \* opencode_client.ask_opencode: how the call ended
    \* the assistant client, called on its own or by the turn loop
    prompt,         \* ask_opencode: the prompt
    proc,           \* ask_opencode: what subprocess.run does on this call
    cli_asked,      \* cli.ask_opencode: how the call ended
    \* run_voice_chat
    args,           \* the parsed command line
    pc,             \* where run_voice_chat is
    session_id,     \* its local session_id
    speaker,        \* its local speaker is not None
    user_text,      \* its local user_text
    file,           \* the content of the session file, or Missing
    last,           \* the step taken last and what its collaborator did
    status,         \* what the step taken last wrote to stderr
    shown,          \* what the step taken last wrote to stdout
    escaped,        \* the exception that left run_voice_chat, or "none"
    \* parse_args, called on its own
    argv,           \* sys.argv[1:]
    namespace,      \* how parse_args ended, or Pending
    \* capture_turn, called on its own
    keep_input_audio,       \* args.keep_input_audio
    input_audio_session,    \* the session label
    wav_path,       \* the turn's WAV file: where it is, whether it exists
    captured,       \* how capture_turn ended, or Pending
    \* record_wav_until_enter, called turn after turn
    turn,           \* the number of the call made last, 0 before the first
    rec_pc,         \* where the main thread is in that call
    waiters,        \* the wait_for_enter thread of every call: where it is
    stop_events,    \* the stop_event of every call: whether it is set
    rec_chunks,         \* len(chunks) of the call made last
    recorded        \* how the call made last ended, or Pending

clientVars == <<output, parsed, options, asked>>
callVars == <<prompt, proc, cli_asked>>
loopVars ==
    <<args, pc, session_id, speaker, user_text, file, last, status, shown, escaped>>
argVars == <<argv, namespace>>
captureVars == <<keep_input_audio, input_audio_session, wav_path, captured>>
recordVars == <<turn, rec_pc, waiters, stop_events, rec_chunks, recorded>>
unitVars == <<argVars, captureVars, recordVars>>
vars == <<clientVars, callVars, loopVars, unitVars>>

---------------------------------------------------------------------------
(* Bounds of the model. *)

\* the longest process output, in lines, that parse_opencode_events is given
MaxLines == 3

---------------------------------------------------------------------------
(* Python values. *)

None == <<"None">>

Pending == [kind |-> "pending"]

\* `if x:` for x: str | None
Truthy(x) == x # None /\ x # <<>>

\* `a or b` for a, b: str | None
PyOr(a, b) == IF Truthy(a) THEN a ELSE b

\* str.isspace() of one character
IsSpace(c) == c \in {" ", "\n", "\t"}

RECURSIVE lstrip(_)
lstrip(s) ==
    IF s # <<>> /\ IsSpace(Head(s)) THEN lstrip(Tail(s)) ELSE s

RECURSIVE rstrip(_)
rstrip(s) ==
    IF s # <<>> /\ IsSpace(s[Len(s)]) THEN rstrip(SubSeq(s, 1, Len(s) - 1)) ELSE s

\* str.strip()
strip(s) == rstrip(lstrip(s))

\* "".join(chunks)
RECURSIVE join(_)
join(chunks) ==
    IF chunks = <<>> THEN <<>> ELSE Head(chunks) \o join(Tail(chunks))

\* the index of the first "\n" of s, 0 when there is none
RECURSIVE FindNewline(_, _)
FindNewline(s, i) ==
    IF i > Len(s) THEN 0
    ELSE IF s[i] = "\n" THEN i
    ELSE FindNewline(s, i + 1)

\* str.splitlines(): the lines without their line ends; a final line end
\* opens no further line
RECURSIVE splitlines(_)
splitlines(s) ==
    IF s = <<>> THEN <<>>
    ELSE LET k == FindNewline(s, 1)
         IN  IF k = 0 THEN <<s>>
             ELSE <<SubSeq(s, 1, k - 1)>> \o splitlines(SubSeq(s, k + 1, Len(s)))

\* str(n) of a decimal digit
DigitChars == <<"0", "1", "2", "3", "4", "5", "6", "7", "8", "9">>

RECURSIVE NatToStr(_)
NatToStr(n) ==
    IF n < 10 THEN <<DigitChars[n + 1]>>
    ELSE NatToStr(n \div 10) \o <<DigitChars[(n % 10) + 1]>>

\* f"{n}" of an int
IntToStr(n) == IF n < 0 THEN <<"-">> \o NatToStr(0 - n) ELSE NatToStr(n)

\* the longest command line, in arguments, that parse_args is given
MaxArgv == 3

\* the longest session label, in characters, that capture_turn is given
MaxLabel == 3

\* the calls of record_wav_until_enter in a run, and the chunks the audio
\* callback delivers in one call
MaxTurns == 4
MaxChunks == 2

---------------------------------------------------------------------------
(* JSON.  The texts the model decodes, each with the value json.loads      *)
(* gives for it.  An object is a record of its keys; a key it does not     *)
(* hold maps to Absent.                                                    *)

Absent == [t |-> "absent"]
JNull == [t |-> "null"]
JNum == [t |-> "num"]
JArr == [t |-> "arr"]
JBool == [t |-> "bool"]
JStr(s) == [t |-> "str", s |-> s]
\* an event object
JEvent(type, sid, part) ==
    [t |-> "obj", o |-> [type |-> type, sessionID |-> sid, part |-> part]]
\* a part object
JPart(text) == [t |-> "obj", o |-> [text |-> text]]
\* a session-file object
JState(sid) == [t |-> "obj", o |-> [session_id |-> sid]]

S1 == <<"s", "1">>
S2 == <<"s", "2">>

\* dict.get(key): None (JNull here) for a key the object does not hold
Get(obj, key) ==
    IF key \in DOMAIN obj.o /\ obj.o[key] # Absent THEN obj.o[key] ELSE JNull

\* isinstance(v, str) / isinstance(v, dict)
IsStr(v) == v.t = "str"
IsDict(v) == v.t = "obj"

EventTexts == <<
    <<"{\"type\":\"status\",\"sessionID\":\"s1\"}",
      JEvent(JStr(<<"status">>), JStr(S1), Absent)>>,
    <<"{\"type\":\"status\",\"sessionID\":\"\"}",
      JEvent(JStr(<<"status">>), JStr(<<>>), Absent)>>,
    <<"{\"type\":\"status\",\"sessionID\":\" \"}",
      JEvent(JStr(<<"status">>), JStr(<<" ">>), Absent)>>,
    <<"{\"type\":\"status\",\"sessionID\":7}",
      JEvent(JStr(<<"status">>), JNum, Absent)>>,
    <<"{\"type\":\"text\",\"sessionID\":\"s2\",\"part\":{\"text\":\"a \"}}",
      JEvent(JStr(<<"text">>), JStr(S2), JPart(JStr(<<"a", " ">>)))>>,
    <<"{\"type\":\"text\",\"part\":{\"text\":\" b\"}}",
      JEvent(JStr(<<"text">>), Absent, JPart(JStr(<<" ", "b">>)))>>,
    <<"{\"type\":\"text\",\"part\":{\"text\":\"\"}}",
      JEvent(JStr(<<"text">>), Absent, JPart(JStr(<<>>)))>>,
    <<"{\"type\":\"text\",\"part\":{\"text\":5}}",
      JEvent(JStr(<<"text">>), Absent, JPart(JNum))>>,
    <<"{\"type\":\"text\",\"part\":{}}",
      JEvent(JStr(<<"text">>), Absent, JPart(Absent))>>,
    <<"{\"type\":\"text\",\"part\":\"a \"}",
      JEvent(JStr(<<"text">>), Absent, JStr(<<"a", " ">>))>>,
    <<"{\"type\":\"tool\",\"part\":{\"text\":\"c\"}}",
      JEvent(JStr(<<"tool">>), Absent, JPart(JStr(<<"c">>)))>>,
    <<"{\"sessionID\":\"s1\",\"part\":{\"text\":\"c\"}}",
      JEvent(Absent, JStr(S1), JPart(JStr(<<"c">>)))>>
>>

NonObjectTexts == <<
    <<"7", JNum>>,
    <<"[1]", JArr>>,
    <<"null", JNull>>,
    <<"\"s1\"", JStr(S1)>>,
    <<"true", JBool>>
>>

\* an id with whitespace around it
PaddedS1 == <<" ">> \o S1 \o <<" ">>

\* json.dumps({"session_id": sid}, indent=2) for the ids the model saves,
\* and the other objects a session file may hold
StateTexts == <<
    <<"{\n  \"session_id\": \"s1\"\n}", JState(JStr(S1))>>,
    <<"{\n  \"session_id\": \"s2\"\n}", JState(JStr(S2))>>,
    <<"{\n  \"session_id\": \" \"\n}", JState(JStr(<<" ">>))>>,
    <<"{\n  \"session_id\": \" s1 \"\n}", JState(JStr(PaddedS1))>>,
    <<"{\"session_id\": \"\"}", JState(JStr(<<>>))>>,
    <<"{\"session_id\": 7}", JState(JNum)>>,
    <<"{\"session_id\": null}", JState(JNull)>>,
    <<"{}", JState(Absent)>>
>>

JsonTexts == EventTexts \o NonObjectTexts \o StateTexts

\* the index of the text tok in table, 0 when it is not one of the texts
IndexOf(table, tok) ==
    IF \E i \in 1..Len(table) : table[i][1] = tok
    THEN CHOOSE i \in 1..Len(table) : table[i][1] = tok
    ELSE 0

DecodeError == [ok |-> FALSE, value |-> JNull]

DecodeAt(table, i) ==
    IF i = 0 THEN DecodeError ELSE [ok |-> TRUE, value |-> table[i][2]]

Decode(table, body) ==
    IF Len(body) = 1 THEN DecodeAt(table, IndexOf(table, body[1]))
    ELSE DecodeError

\* json.loads(s): whitespace around the one JSON text is allowed; anything
\* else (no text, characters that form none, text after the value) is a
\* JSONDecodeError
json_loads(s) == Decode(JsonTexts, strip(s))

\* the text of the i-th event of EventTexts, of the i-th non-object text
Ev(i) == EventTexts[i][1]
NonObj(i) == NonObjectTexts[i][1]

---------------------------------------------------------------------------
(* parse_opencode_events (src/vincent/opencode_client.py; the copies in    *)
(* src/vincent/cli.py and src/voice_chat.py are the same text).            *)

\* the loop's locals before the first line
ParseStart == [chunks |-> <<>>, discovered |-> None, raised |-> "none"]

\* lines 72-74: text = part.get("text"), appended when a non-empty str
AppendText(st, text) ==
    IF IsStr(text) /\ text.s # <<>>
    THEN [st EXCEPT !.chunks = Append(@, text.s)]
    ELSE st

\* lines 65-70: only an event of type "text" whose part is a dict counts
CollectText(st, type, part) ==
    IF type # JStr(<<"text">>) THEN st
    ELSE IF ~IsDict(part) THEN st
    ELSE AppendText(st, Get(part, "text"))

\* a fault of NoteSession: the first sessionID seen is kept
NoteSessionFirstWins(st, event_session_id) ==
    IF IsStr(event_session_id) /\ event_session_id.s # <<>>
       /\ st.discovered = None
    THEN [st EXCEPT !.discovered = event_session_id.s]
    ELSE st

\* lines 61-63: a non-empty str sessionID replaces the one seen before
NoteSession(st, event_session_id) ==
    IF IsStr(event_session_id) /\ event_session_id.s # <<>>
    THEN [st EXCEPT !.discovered = event_session_id.s]
    ELSE st

\* lines 61-74; event.get raises AttributeError on a value that is no dict
\* (int, str, list, bool, None)
ParseEvent(st, event) ==
    IF ~IsDict(event) THEN [st EXCEPT !.raised = "AttributeError"]
    ELSE CollectText(NoteSession(st, Get(event, "sessionID")),
                     Get(event, "type"), Get(event, "part"))

\* lines 56-59: a line that does not decode is skipped
ParseDecoded(st, decoded) ==
    IF ~decoded.ok THEN st ELSE ParseEvent(st, decoded.value)

\* lines 53-54: a blank line is skipped
ParseStripped(st, line) ==
    IF line = <<>> THEN st ELSE ParseDecoded(st, json_loads(line))

\* one pass through the body of `for raw_line in output.splitlines()`
ParseLine(st, raw_line) == ParseStripped(st, strip(raw_line))

RECURSIVE ParseLoop(_, _, _)
ParseLoop(lines, i, st) ==
    IF i > Len(lines) \/ st.raised # "none" THEN st
    ELSE ParseLoop(lines, i + 1, ParseLine(st, lines[i]))

\* the call: what it returns (raised = "none"), or the exception it raises
ParseResult(st) ==
    IF st.raised # "none"
    THEN [raised |-> st.raised, text |-> <<>>, sid |-> None]
    ELSE [raised |-> "none", text |-> strip(join(st.chunks)),
          sid |-> st.discovered]

parse_opencode_events(out) ==
    ParseResult(ParseLoop(splitlines(out), 1, ParseStart))

---------------------------------------------------------------------------
(* build_opencode_command *)

Lit(word) == <<word>>

\* a fault of FlagPair: `if value is not None:`
FlagPairNotNone(flag, value) ==
    IF value # None THEN <<Lit(flag), value>> ELSE <<>>

\* command.extend([flag, value]) when `if value:`
FlagPair(flag, value) == IF Truthy(value) THEN <<Lit(flag), value>> ELSE <<>>

\* src/vincent/opencode_client.py
build_opencode_command(message, opts) ==
    <<Lit("opencode"), Lit("run"), Lit("--format"), Lit("json")>>
        \o FlagPair("--session", opts.session_id)
        \o FlagPair("--model", opts.model)
        \o FlagPair("--agent", opts.agent)
        \o FlagPair("--attach", opts.attach)
        \o FlagPair("--dir", opts.directory)
        \o <<message>>

\* src/vincent/cli.py: the options are read from args, the session id is a
\* separate parameter
cli_build_opencode_command(message, a, sid) ==
    <<Lit("opencode"), Lit("run"), Lit("--format"), Lit("json")>>
        \o FlagPair("--session", sid)
        \o FlagPair("--model", a.opencode_model)
        \o FlagPair("--agent", a.opencode_agent)
        \o FlagPair("--attach", a.opencode_attach)
        \o FlagPair("--dir", a.opencode_dir)
        \o <<message>>

---------------------------------------------------------------------------
(* ask_opencode.  proc is what subprocess.run does on the call: it raises  *)
(* (kind names the exception, reason is its str()) or it returns a         *)
(* CompletedProcess (kind = "completed").                                  *)

Returned(text, sid, cmd) ==
    [kind |-> "return", exc |-> "none", msg |-> <<>>, text |-> text,
     sid |-> sid, command |-> cmd]

Raised(exc, msg, cmd) ==
    [kind |-> "raise", exc |-> exc, msg |-> msg, text |-> <<>>,
     sid |-> None, command |-> cmd]

\* issubclass(kind, OSError)
IsOSError(kind) == kind \in {"FileNotFoundError", "PermissionError"}

\* a fault of RunFailedMsg: details = result.stdout.strip() or
\* result.stderr.strip()
RunFailedMsgStdoutFirst(p) ==
    Lit("opencode run failed (") \o IntToStr(p.returncode) \o Lit("): ")
        \o PyOr(strip(p.stdout), strip(p.stderr))

\* f"opencode run failed ({result.returncode}): {details}"
RunFailedMsg(p) ==
    Lit("opencode run failed (") \o IntToStr(p.returncode) \o Lit("): ")
        \o PyOr(strip(p.stderr), strip(p.stdout))

\* a fault of AfterParse: return response_text, discovered_session
AfterParseNoFallback(r, sid, cmd) ==
    IF r.raised # "none" THEN Raised(r.raised, <<>>, cmd)
    ELSE Returned(r.text, r.sid, cmd)

\* return response_text, discovered_session or session_id; an exception of
\* parse_opencode_events passes through
AfterParse(r, sid, cmd) ==
    IF r.raised # "none" THEN Raised(r.raised, <<>>, cmd)
    ELSE Returned(r.text, PyOr(r.sid, sid), cmd)

\* lines 100-106 of opencode_client.py, 303-309 of cli.py: the same text
AfterRun(p, sid, cmd) ==
    IF p.returncode # 0 THEN Raised("RuntimeError", RunFailedMsg(p), cmd)
    ELSE AfterParse(parse_opencode_events(p.stdout), sid, cmd)

\* a fault of AskRun: subprocess.run outside the try
AskRunNoTry(p, sid, cmd) ==
    IF p.kind # "completed" THEN Raised(p.kind, p.reason, cmd)
    ELSE AfterRun(p, sid, cmd)

\* src/vincent/opencode_client.py, lines 85-106 (the messages' backquotes
\* around opencode are written as quotes)
AskRun(p, sid, cmd) ==
    IF p.kind = "FileNotFoundError"
    THEN Raised("RuntimeError",
                Lit("'opencode' executable was not found in PATH"), cmd)
    ELSE IF IsOSError(p.kind)
    THEN Raised("RuntimeError",
                Lit("Failed to launch 'opencode': ") \o p.reason, cmd)
    ELSE IF p.kind # "completed" THEN Raised(p.kind, p.reason, cmd)
    ELSE AfterRun(p, sid, cmd)

\* src/vincent/opencode_client.py
ask_opencode(message, opts, p) ==
    AskRun(p, opts.session_id, build_opencode_command(message, opts))

\* src/vincent/cli.py, lines 297-309: subprocess.run is not inside a try
CliAskRun(p, sid, cmd) ==
    IF p.kind # "completed" THEN Raised(p.kind, p.reason, cmd)
    ELSE AfterRun(p, sid, cmd)

\* a fault of cli_ask_opencode: the command is built without the session
CliAskOpencodeFreshSession(message, a, sid, p) ==
    CliAskRun(p, sid, cli_build_opencode_command(message, a, None))

\* src/vincent/cli.py
cli_ask_opencode(message, a, sid, p) ==
    CliAskRun(p, sid, cli_build_opencode_command(message, a, sid))

---------------------------------------------------------------------------
(* The session store (src/vincent/cli.py). *)

Missing == <<"Missing">>

\* json.dumps(payload, indent=2) of {"session_id": sid}
json_dumps_state(sid) ==
    <<StateTexts[CHOOSE j \in 1..Len(StateTexts) :
                     StateTexts[j][2] = JState(JStr(sid))][1]>>

\* what the file system does on a save: it succeeds, or mkdir, open or
\* write raises an OSError; a failed write leaves the file truncated
SaveOutcomes == {"ok", "mkdir_fails", "open_fails", "write_fails"}

\* a fault of save_session_id: the payload is built and not written
SaveSessionIdNoWrite(f, sid, w) ==
    IF w = "ok" THEN [file |-> f, raised |-> "none"]
    ELSE [file |-> f, raised |-> "OSError"]

\* save_session_id: the file afterwards and the exception it raises
save_session_id(f, sid, w) ==
    IF w = "ok"
    THEN [file |-> json_dumps_state(sid) \o <<"\n">>, raised |-> "none"]
    ELSE IF w = "write_fails" THEN [file |-> <<>>, raised |-> "OSError"]
    ELSE [file |-> f, raised |-> "OSError"]

\* what read_text(encoding="utf-8") does on a load of a file that exists:
\* it returns the text, or raises OSError, or raises UnicodeDecodeError (a
\* ValueError) on bytes that are no UTF-8
ReadOutcomes == {"ok", "OSError", "UnicodeDecodeError"}

Loaded(value) == [value |-> value, raised |-> "none", status |-> <<>>]

LoadFailed ==
    [value |-> None, raised |-> "none",
     status |-> <<Lit("Could not read session file")>>]

\* a fault of load_session_id: the id is returned as the file holds it
LoadValueUnstripped(sid) ==
    IF IsStr(sid) /\ strip(sid.s) # <<>> THEN Loaded(sid.s)
    ELSE Loaded(None)

\* lines 212-215
LoadValue(sid) ==
    IF IsStr(sid) /\ strip(sid.s) # <<>> THEN Loaded(strip(sid.s))
    ELSE Loaded(None)

\* line 212: data.get raises AttributeError on a value that is no dict
LoadData(data) ==
    IF ~IsDict(data)
    THEN [value |-> None, raised |-> "AttributeError", status |-> <<>>]
    ELSE LoadValue(Get(data, "session_id"))

\* lines 206-210
LoadDecoded(decoded) ==
    IF ~decoded.ok THEN LoadFailed ELSE LoadData(decoded.value)

\* load_session_id: what it returns and writes to stderr, or the exception
\* it raises
load_session_id(f, rd) ==
    IF f = Missing THEN Loaded(None)
    ELSE IF rd = "OSError" THEN LoadFailed
    ELSE IF rd = "UnicodeDecodeError"
    THEN [value |-> None, raised |-> "UnicodeDecodeError", status |-> <<>>]
    ELSE LoadDecoded(json_loads(f))

Resolved(value, f, raised, st) ==
    [value |-> value, file |-> f, raised |-> raised, status |-> st]

ResolveSaved(a, sv) == Resolved(a.session_id, sv.file, sv.raised, <<>>)

ResolveLoaded(f, ld) == Resolved(ld.value, f, ld.raised, ld.status)

\* a fault of resolve_session_id: the explicit id is returned and not saved
ResolveSessionIdUnsaved(a, f, w, rd) ==
    IF Truthy(a.session_id) THEN Resolved(a.session_id, f, "none", <<>>)
    ELSE IF a.new_session THEN Resolved(None, f, "none", <<>>)
    ELSE ResolveLoaded(f, load_session_id(f, rd))

\* resolve_session_id: the id, the file afterwards, what was written to
\* stderr, and the exception it raises
resolve_session_id(a, f, w, rd) ==
    IF Truthy(a.session_id)
    THEN ResolveSaved(a, save_session_id(f, a.session_id, w))
    ELSE IF a.new_session THEN Resolved(None, f, "none", <<>>)
    ELSE ResolveLoaded(f, load_session_id(f, rd))

---------------------------------------------------------------------------
(* The turn loop run_voice_chat. *)

EXIT_PHRASES ==
    { <<"e", "x", "i", "t">>, <<"q", "u", "i", "t">>,
      <<"g", "o", "o", "d", "b", "y", "e">> }

\* the letters of the model's transcripts
UpperChars == <<"B", "D", "E", "G", "H", "I", "O", "Q", "S", "T", "U", "X", "Y">>
LowerChars == <<"b", "d", "e", "g", "h", "i", "o", "q", "s", "t", "u", "x", "y">>

lower_char(c) ==
    IF \E i \in 1..Len(UpperChars) : UpperChars[i] = c
    THEN LowerChars[CHOOSE i \in 1..Len(UpperChars) : UpperChars[i] = c]
    ELSE c

\* str.lower()
lower(s) == [i \in 1..Len(s) |-> lower_char(s[i])]

\* a fault of is_exit_phrase: user_text.strip() in EXIT_PHRASES
IsExitPhraseCaseSensitive(text) == strip(text) \in EXIT_PHRASES

\* user_text.strip().lower() in EXIT_PHRASES
is_exit_phrase(text) == lower(strip(text)) \in EXIT_PHRASES

\* a fault of capture_turn: the text is returned as Whisper gave it
CaptureTurnUnstripped(c) == c.raw

\* capture_turn (src/vincent/whisper_input.py): what it returns for the
\* text Whisper gives
capture_turn(c) == strip(c.raw)

\* discovered_session_id and discovered_session_id != session_id
session_changed(discovered, sid) == Truthy(discovered) /\ discovered # sid

NL == <<"\n">>
StoppedMsg == Lit("Stopped.") \o NL
UserLine(text) == Lit("You:") \o NL \o text \o NL \o NL
AssistantLine(text) == Lit("Assistant:") \o NL \o text \o NL \o NL
DetectedMsg(lang) ==
    IF Truthy(lang) THEN <<Lit("Detected language: ") \o lang \o NL>> ELSE <<>>

---------------------------------------------------------------------------
(* What the collaborators may do, and the inputs of the model. *)

Hi == <<"h", "i">>
Boom == <<"b", "o", "o", "m">>

\* the texts Whisper gives for a recording
WhisperTexts ==
    { <<>>, <<" ">>, Hi, <<"q", "u", "i", "t">>,
      <<" ", " ", "Q", "u", "i", "t", " ">>,
      <<"G", "O", "O", "D", "B", "Y", "E">>, <<"e", "x", "i", "t">>,
      <<"q", "u", "i", "t", "s">>, <<"e", "x", "i", "t", " ", "h", "i">> }

NoCapture == [kind |-> "none", raw |-> <<>>, lang |-> None, msg |-> <<>>]

\* capture_turn returns, or raises: the RuntimeError of a recording without
\* audio, sounddevice's PortAudioError (an Exception, no RuntimeError) when
\* the input stream cannot be opened, or KeyboardInterrupt
CaptureOutcomes ==
    { [NoCapture EXCEPT !.kind = "ok", !.raw = t] : t \in WhisperTexts }
    \cup { [NoCapture EXCEPT !.kind = "ok", !.raw = Hi, !.lang = Lit("en")],
           [NoCapture EXCEPT !.kind = "RuntimeError",
                             !.msg = Lit("No audio captured from microphone")],
           [NoCapture EXCEPT !.kind = "PortAudioError",
                             !.msg = Lit("Error opening InputStream")],
           [NoCapture EXCEPT !.kind = "KeyboardInterrupt"] }

\* the outputs of the opencode process
StdoutSamples ==
    { <<>>,
      <<Ev(6)>>,
      <<Ev(1), "\n", Ev(5), "\n", Ev(6), "\n">>,
      <<Ev(1), "\n">>,
      <<Ev(5), "\n", "x", "\n", Ev(1)>>,
      <<NonObj(1), "\n", Ev(5)>>,
      <<Ev(3)>> }

NoProc ==
    [kind |-> "none", reason |-> <<>>, returncode |-> 0, stdout |-> <<>>,
     stderr |-> <<>>]

Completed(rc, out, err) ==
    [NoProc EXCEPT !.kind = "completed", !.returncode = rc, !.stdout = out,
                   !.stderr = err]

\* what subprocess.run may do
ProcSamples ==
    { [NoProc EXCEPT !.kind = "FileNotFoundError",
                     !.reason = Lit("[Errno 2] No such file or directory: 'opencode'")],
      [NoProc EXCEPT !.kind = "PermissionError",
                     !.reason = Lit("[Errno 13] Permission denied: 'opencode'")],
      [NoProc EXCEPT !.kind = "KeyboardInterrupt"] }
    \cup { Completed(0, out, <<>>) : out \in StdoutSamples }
    \cup { Completed(0, <<Ev(6)>>, Boom),
           Completed(7, <<>>, Boom),
           Completed(7, <<Ev(1), "\n", Ev(5), "\n">>, <<>>),
           Completed(1, <<" ", "x", "\n">>, <<" ", "\n">>),
           Completed(1, <<>>, <<>>),
           Completed(12, <<Ev(5)>>, <<"\n", "b", " ", "o", "\n">>),
           Completed(0 - 9, <<>>, Boom) }

\* what speaker.speak may do: return, or raise one of these
SpeakOutcomes ==
    {"ok", "KeyboardInterrupt", "RuntimeError", "ValueError", "OSError",
     "PortAudioError"}

NoArgs ==
    [session_id |-> None, new_session |-> FALSE, voice |-> FALSE,
     opencode_model |-> None, opencode_agent |-> None,
     opencode_attach |-> None, opencode_dir |-> None]

\* the command lines: --session-id and --new-session exclude each other
ArgsSamples ==
    { [NoArgs EXCEPT !.session_id = sid, !.voice = v] :
          sid \in {None, <<>>, S2, <<" ">>}, v \in BOOLEAN }
    \cup { [NoArgs EXCEPT !.new_session = TRUE, !.voice = v] : v \in BOOLEAN }
    \cup { [NoArgs EXCEPT !.opencode_model = Lit("provider/model")] }

\* the session file when the program starts
FileSamples ==
    { Missing, json_dumps_state(S1) \o NL, json_dumps_state(<<" ">>) \o NL,
      <<"{", "x">>, <<NonObj(2)>> }

\* saved: the step called save_session_id and it returned
NoLast == [step |-> "none", outcome |-> "none", saved |-> FALSE]

---------------------------------------------------------------------------
(* run_voice_chat, src/vincent/cli.py.  Each action is one blocking step   *)
(* of the function with everything it does up to the next one.             *)

\* what the environment does at startup: whether build_whisper_model and
\* KokoroSpeaker(...) would raise when called
StartupEnv(whisper_ok, speaker_ok) ==
    IF whisper_ok /\ speaker_ok THEN "ok"
    ELSE IF whisper_ok THEN "speaker_fails"
    ELSE IF speaker_ok THEN "whisper_fails"
    ELSE "both_fail"

\* a fault of run_voice_chat: the speaker is built whether or not voice is
\* requested
SpeakerUnavailableAlways(voice, speaker_ok) == ~speaker_ok

\* lines 323-340: the speaker is built only when voice is requested, and
\* building it may raise
SpeakerUnavailable(voice, speaker_ok) == voice /\ ~speaker_ok

\* lines 316-351, once resolve_session_id has ended as rs
StartupResolved(rs, whisper_ok, speaker_ok) ==
    /\ file' = rs.file
    /\ IF rs.raised # "none"
       THEN /\ pc' = "crashed"
            /\ escaped' = rs.raised
            /\ session_id' = None
            /\ speaker' = FALSE
            /\ status' = rs.status
            /\ last' = [step |-> "startup", outcome |-> rs.raised, saved |-> FALSE]
       ELSE IF ~whisper_ok
       THEN /\ pc' = "exit"
            /\ escaped' = "SystemExit(2)"
            /\ session_id' = rs.value
            /\ speaker' = FALSE
            /\ status' = rs.status \o <<Lit("Failed to load Whisper model")>>
            /\ last' = [step |-> "startup",
                       outcome |-> StartupEnv(whisper_ok, speaker_ok),
                       saved |-> Truthy(args.session_id)]
       ELSE IF SpeakerUnavailable(args.voice, speaker_ok)
       THEN /\ pc' = "exit"
            /\ escaped' = "SystemExit(2)"
            /\ session_id' = rs.value
            /\ speaker' = FALSE
            /\ status' = rs.status \o <<Lit("Voice requested but unavailable")>>
            /\ last' = [step |-> "startup",
                       outcome |-> StartupEnv(whisper_ok, speaker_ok),
                       saved |-> Truthy(args.session_id)]
       ELSE /\ pc' = "capture"
            /\ escaped' = "none"
            /\ session_id' = rs.value
            /\ speaker' = args.voice
            /\ status' = rs.status
                   \o <<IF Truthy(rs.value)
                        THEN Lit("Using opencode session: ") \o rs.value
                        ELSE Lit("No saved opencode session found.")>>
            /\ last' = [step |-> "startup",
                       outcome |-> StartupEnv(whisper_ok, speaker_ok),
                       saved |-> Truthy(args.session_id)]
    /\ shown' = <<>>
    /\ UNCHANGED <<args, user_text, clientVars, callVars, unitVars>>

\* a fault of run_voice_chat: the models are loaded first and the session
\* is resolved only once they are there
StartupModelsFirst ==
    /\ pc = "start"
    /\ \E w \in IF Truthy(args.session_id) THEN SaveOutcomes ELSE {"ok"},
          rd \in IF file = Missing THEN {"ok"} ELSE ReadOutcomes,
          whisper_ok \in BOOLEAN, speaker_ok \in BOOLEAN :
          IF ~whisper_ok \/ SpeakerUnavailable(args.voice, speaker_ok)
          THEN StartupResolved(Resolved(None, file, "none", <<>>),
                               whisper_ok, speaker_ok)
          ELSE StartupResolved(resolve_session_id(args, file, w, rd),
                               whisper_ok, speaker_ok)

\* lines 315-351: resolve the session, load Whisper, build the speaker
Startup ==
    /\ pc = "start"
    /\ \E w \in IF Truthy(args.session_id) THEN SaveOutcomes ELSE {"ok"},
          rd \in IF file = Missing THEN {"ok"} ELSE ReadOutcomes,
          whisper_ok \in BOOLEAN, speaker_ok \in BOOLEAN :
          StartupResolved(resolve_session_id(args, file, w, rd),
                          whisper_ok, speaker_ok)

\* lines 354-382: capture a turn, render it, look for an exit phrase
CaptureTurn ==
    /\ pc = "capture"
    /\ \E c \in CaptureOutcomes :
          /\ last' = [step |-> "capture", outcome |-> c.kind, saved |-> FALSE]
          /\ IF c.kind = "RuntimeError"
             THEN /\ pc' = "capture"
                  /\ status' = <<c.msg \o NL, Lit("Please try again.") \o NL>>
                  /\ shown' = <<>>
                  /\ UNCHANGED <<user_text, escaped>>
             ELSE IF c.kind = "KeyboardInterrupt"
             THEN /\ pc' = "Stopped"
                  /\ status' = <<StoppedMsg>>
                  /\ shown' = <<>>
                  /\ UNCHANGED <<user_text, escaped>>
             ELSE IF c.kind # "ok"
             THEN /\ pc' = "crashed"
                  /\ escaped' = c.kind
                  /\ status' = <<>>
                  /\ shown' = <<>>
                  /\ UNCHANGED user_text
             ELSE /\ user_text' = capture_turn(c)
                  /\ escaped' = escaped
                  /\ IF ~Truthy(user_text')
                     THEN /\ pc' = "capture"
                          /\ status' = <<Lit("No speech detected.") \o NL>>
                          /\ shown' = <<>>
                     ELSE /\ shown' = <<UserLine(user_text')>>
                          /\ IF is_exit_phrase(user_text')
                             THEN /\ pc' = "ExitPhrase"
                                  /\ status' = DetectedMsg(c.lang)
                                        \o <<Lit("Exit phrase detected.") \o NL>>
                             ELSE /\ pc' = "dispatch"
                                  /\ status' = DetectedMsg(c.lang)
    /\ UNCHANGED <<args, session_id, speaker, file, clientVars, callVars,
                   unitVars>>

AskingMsg == Lit("Asking opencode...") \o NL

\* a fault of run_voice_chat: the reply is looked at first, and the session
\* id of a call without text is not kept
ChangedWithText(r) ==
    r.kind = "return" /\ Truthy(r.text) /\ session_changed(r.sid, session_id)

\* the call returned and (line 398) its session id is to be kept
Changed(r) == r.kind = "return" /\ session_changed(r.sid, session_id)

\* lines 391-409, once ask_opencode has ended as r and, when the id
\* changed, save_session_id as sv
DispatchSaved(p, r, changed, sv) ==
    /\ prompt' = user_text
    /\ proc' = p
    /\ cli_asked' = r
    /\ last' = [step |-> "dispatch", outcome |-> p.kind,
                 saved |-> changed /\ sv.raised = "none"]
    /\ IF r.kind = "raise" /\ r.exc = "RuntimeError"
       THEN /\ pc' = "capture"
            /\ status' = <<AskingMsg, r.msg \o NL>>
            /\ shown' = <<>>
            /\ UNCHANGED <<session_id, file, escaped>>
       ELSE IF r.kind = "raise" /\ r.exc = "KeyboardInterrupt"
       THEN /\ pc' = "Stopped"
            /\ status' = <<AskingMsg, StoppedMsg>>
            /\ shown' = <<>>
            /\ UNCHANGED <<session_id, file, escaped>>
       ELSE IF r.kind = "raise"
       THEN /\ pc' = "crashed"
            /\ escaped' = r.exc
            /\ status' = <<AskingMsg>>
            /\ shown' = <<>>
            /\ UNCHANGED <<session_id, file>>
       ELSE IF changed /\ sv.raised # "none"
       THEN /\ pc' = "crashed"
            /\ escaped' = sv.raised
            /\ session_id' = r.sid
            /\ file' = sv.file
            /\ status' = <<AskingMsg>>
            /\ shown' = <<>>
       ELSE /\ escaped' = escaped
            /\ session_id' = IF changed THEN r.sid ELSE session_id
            /\ file' = IF changed THEN sv.file ELSE file
            /\ status' = <<AskingMsg>>
                  \o (IF changed
                      THEN <<Lit("Saved opencode session: ") \o r.sid
                               \o <<" (", "state_path", ")">> \o NL>>
                      ELSE <<>>)
                  \o (IF ~Truthy(r.text)
                      THEN <<Lit("opencode returned no text response.") \o NL>>
                      ELSE <<>>)
            /\ shown' = IF Truthy(r.text) THEN <<AssistantLine(r.text)>> ELSE <<>>
            /\ pc' = IF Truthy(r.text) /\ speaker THEN "speak" ELSE "capture"
    /\ UNCHANGED <<args, speaker, user_text, clientVars, unitVars>>

\* the file system is asked only when the id is saved
DispatchAsked(p, r) ==
    \E w \in IF Changed(r) THEN SaveOutcomes ELSE {"ok"} :
        DispatchSaved(p, r, Changed(r), save_session_id(file, r.sid, w))

\* lines 384-409: ask opencode, keep the session id, render the reply
Dispatch ==
    /\ pc = "dispatch"
    /\ \E p \in ProcSamples :
          DispatchAsked(p, cli_ask_opencode(user_text, args, session_id, p))

\* a fault of run_voice_chat: a playback failure ends the loop as an
\* interrupt does
SpeakFailureStops ==
    /\ pc = "speak"
    /\ \E k \in SpeakOutcomes :
          /\ last' = [step |-> "speak", outcome |-> k, saved |-> FALSE]
          /\ IF k = "ok"
             THEN pc' = "capture" /\ status' = <<>>
             ELSE pc' = "Stopped" /\ status' = <<StoppedMsg>>
    /\ shown' = <<>>
    /\ UNCHANGED <<args, session_id, speaker, user_text, file, escaped,
                   clientVars, callVars, unitVars>>

\* lines 410-417: speak the reply
Speak ==
    /\ pc = "speak"
    /\ \E k \in SpeakOutcomes :
          /\ last' = [step |-> "speak", outcome |-> k, saved |-> FALSE]
          /\ IF k = "ok"
             THEN pc' = "capture" /\ status' = <<>>
             ELSE IF k = "KeyboardInterrupt"
             THEN pc' = "Stopped" /\ status' = <<StoppedMsg>>
             ELSE /\ pc' = "capture"
                  /\ status' = <<Lit("Kokoro playback failed: ") \o Lit(k) \o NL>>
    /\ shown' = <<>>
    /\ UNCHANGED <<args, session_id, speaker, user_text, file, escaped,
                   clientVars, callVars, unitVars>>

---------------------------------------------------------------------------
(* run_voice_chat, src/voice_chat.py: the standalone script.  Its capture  *)
(* and dispatch steps (lines 572-623) are the text of cli.py's.            *)

\* lines 538-570: as in cli.py, but no Whisper model is loaded at startup
ScriptStartup ==
    /\ pc = "start"
    /\ \E w \in IF Truthy(args.session_id) THEN SaveOutcomes ELSE {"ok"},
          rd \in IF file = Missing THEN {"ok"} ELSE ReadOutcomes,
          speaker_ok \in BOOLEAN :
          StartupResolved(resolve_session_id(args, file, w, rd),
                          TRUE, speaker_ok)

\* lines 624-628: the try around speak has no clause for KeyboardInterrupt
ScriptSpeak ==
    /\ pc = "speak"
    /\ \E k \in SpeakOutcomes :
          /\ last' = [step |-> "speak", outcome |-> k, saved |-> FALSE]
          /\ IF k = "ok"
             THEN pc' = "capture" /\ status' = <<>> /\ escaped' = escaped
             ELSE IF k = "KeyboardInterrupt"
             THEN pc' = "crashed" /\ status' = <<>> /\ escaped' = k
             ELSE /\ pc' = "capture"
                  /\ status' = <<Lit("Kokoro playback failed: ") \o Lit(k) \o NL>>
                  /\ escaped' = escaped
    /\ shown' = <<>>
    /\ UNCHANGED <<args, session_id, speaker, user_text, file,
                   clientVars, callVars, unitVars>>

---------------------------------------------------------------------------
(* The specifications. *)

ClientIdle ==
    /\ output = <<>>
    /\ parsed = Pending
    /\ options = [session_id |-> None, model |-> None, agent |-> None,
                  attach |-> None, directory |-> None]
    /\ asked = Pending

CallIdle ==
    /\ prompt = <<>>
    /\ proc = NoProc
    /\ cli_asked = Pending

LoopIdle ==
    /\ args = NoArgs
    /\ pc = "idle"
    /\ session_id = None
    /\ speaker = FALSE
    /\ user_text = <<>>
    /\ file = Missing
    /\ last = NoLast
    /\ status = <<>>
    /\ shown = <<>>
    /\ escaped = "none"

\* the turn's WAV file before capture_turn has reserved it
NoWav == [dir |-> <<>>, exists |-> FALSE]

ArgsIdle ==
    /\ argv = <<>>
    /\ namespace = Pending

CaptureIdle ==
    /\ keep_input_audio = FALSE
    /\ input_audio_session = <<>>
    /\ wav_path = NoWav
    /\ captured = Pending

\* no call of record_wav_until_enter was made
RecordIdle ==
    /\ turn = 0
    /\ rec_pc = "idle"
    /\ waiters = [t \in 1..MaxTurns |-> "none"]
    /\ stop_events = [t \in 1..MaxTurns |-> FALSE]
    /\ rec_chunks = 0
    /\ recorded = Pending

UnitsIdle == ArgsIdle /\ CaptureIdle /\ RecordIdle

\* the program, run from its command line
Init ==
    /\ ClientIdle
    /\ CallIdle
    /\ UnitsIdle
    /\ args \in ArgsSamples
    /\ file \in FileSamples
    /\ pc = "start"
    /\ session_id = None
    /\ speaker = FALSE
    /\ user_text = <<>>
    /\ last = NoLast
    /\ status = <<>>
    /\ shown = <<>>
    /\ escaped = "none"

Next == Startup \/ CaptureTurn \/ Dispatch \/ Speak

Spec == Init /\ [][Next]_vars

\* the standalone script, run from its command line
NextScript == ScriptStartup \/ CaptureTurn \/ Dispatch \/ ScriptSpeak

SpecScript == Init /\ [][NextScript]_vars

---------------------------------------------------------------------------
(* The session store called on its own: save_session_id, load_session_id  *)
(* and resolve_session_id, on the variables of the loop that hold their    *)
(* arguments and results (args, file, session_id, status, escaped).        *)

\* the session files: those of the program's start, files saved with other
\* ids, objects without a usable session_id, JSON values that are no object
StoreFiles ==
    FileSamples
    \cup { json_dumps_state(PaddedS1) \o NL,
           <<"{\"session_id\": \"\"}">>,
           <<"{\"session_id\": 7}", "\n">>,
           <<"{\"session_id\": null}">>,
           <<"{}">>,
           <<>> }
    \cup { <<NonObj(i)>> : i \in 1..Len(NonObjectTexts) }

\* the ids save_session_id is given
StoreIds == { S1, S2, PaddedS1, <<" ">> }

\* the arguments of resolve_session_id: a direct call may set both flags
StoreArgs ==
    ArgsSamples \cup { [NoArgs EXCEPT !.session_id = S2, !.new_session = TRUE] }

InitStore ==
    /\ ClientIdle
    /\ CallIdle
    /\ UnitsIdle
    /\ args \in StoreArgs
    /\ file \in StoreFiles
    /\ pc = "store"
    /\ session_id = None
    /\ speaker = FALSE
    /\ user_text = <<>>
    /\ last = NoLast
    /\ status = <<>>
    /\ shown = <<>>
    /\ escaped = "none"

\* save_session_id(state_path, session_id)
SaveSessionIdCalled(sid, w, sv) ==
    /\ session_id' = sid
    /\ file' = sv.file
    /\ escaped' = sv.raised
    /\ status' = <<>>
    /\ last' = [step |-> "save", outcome |-> w, saved |-> sv.raised = "none"]

SaveSessionId ==
    /\ pc = "store"
    /\ \E sid \in StoreIds, w \in SaveOutcomes :
          SaveSessionIdCalled(sid, w, save_session_id(file, sid, w))
    /\ UNCHANGED <<args, pc, speaker, user_text, shown, clientVars, callVars,
                   unitVars>>

\* session_id = load_session_id(state_path)
LoadSessionIdCalled(rd, ld) ==
    /\ session_id' = ld.value
    /\ escaped' = ld.raised
    /\ status' = ld.status
    /\ last' = [step |-> "load", outcome |-> rd, saved |-> FALSE]

LoadSessionId ==
    /\ pc = "store"
    /\ \E rd \in ReadOutcomes : LoadSessionIdCalled(rd, load_session_id(file, rd))
    /\ UNCHANGED <<args, pc, speaker, user_text, file, shown, clientVars,
                   callVars, unitVars>>

\* session_id = resolve_session_id(args, state_path)
ResolveSessionIdCalled(w, rd, rs) ==
    /\ session_id' = rs.value
    /\ file' = rs.file
    /\ escaped' = rs.raised
    /\ status' = rs.status
    /\ last' = [step |-> "resolve", outcome |-> <<w, rd>>,
                saved |-> Truthy(args.session_id) /\ rs.raised = "none"]

ResolveSessionId ==
    /\ pc = "store"
    /\ \E w \in SaveOutcomes, rd \in ReadOutcomes :
          ResolveSessionIdCalled(w, rd, resolve_session_id(args, file, w, rd))
    /\ UNCHANGED <<args, pc, speaker, user_text, shown, clientVars, callVars,
                   unitVars>>

NextStore == SaveSessionId \/ LoadSessionId \/ ResolveSessionId

SpecStore == InitStore /\ [][NextStore]_vars

---------------------------------------------------------------------------
(* parse_args (src/vincent/cli.py), called on its own.  An argument is one *)
(* token.  argparse as the parser of lines 35-145 uses it: an option that  *)
(* takes a value takes the next argument unless that one looks like an     *)
(* option; "-1" looks like a negative number and the parser has no option  *)
(* of that shape, so it is a value; what is left over is an error; every   *)
(* error is SystemExit(2).                                                 *)

\* the arguments of the model's command lines
ArgvTokens ==
    { "--input-sample-rate", "--input-channels", "--session-id",
      "--new-session", "--keep-input-audio", "--no-voice", "--model",
      "0", "-1", "2", "s1" }

\* int(text) for the texts that are integers
IntTexts == << <<"0", 0>>, <<"-1", 0 - 1>>, <<"2", 2>> >>

\* the options of lines 68-96 and 124-129 that take one value / no value
ValueOptions == {"--input-sample-rate", "--input-channels", "--session-id"}
FlagOptions == {"--new-session", "--keep-input-audio", "--no-voice"}

\* argparse takes an argument for an option string when it starts with "-"
\* and is no negative number
LooksLikeOption(tok) ==
    tok \in ValueOptions \cup FlagOptions \cup {"--model"}

\* the defaults of lines 42-145; group: the options of the mutually
\* exclusive group (86-96) seen so far
DefaultNamespace ==
    [exit |-> 0, input_sample_rate |-> 16000, input_channels |-> 1,
     keep_input_audio |-> FALSE, session_id |-> None, new_session |-> FALSE,
     voice |-> TRUE, group |-> {}]

\* parser.error(...): usage on stderr, SystemExit(2)
ArgError == [DefaultNamespace EXCEPT !.exit = 2]

\* type=int (lines 70, 76): the converted value is stored as it is
StoreInt(ns, opt, i) ==
    IF i = 0 THEN ArgError
    ELSE IF opt = "--input-sample-rate"
    THEN [ns EXCEPT !.input_sample_rate = IntTexts[i][2]]
    ELSE [ns EXCEPT !.input_channels = IntTexts[i][2]]

\* an option of the group is taken: an error when the other was seen
TakeInGroup(ns, opt, taken) ==
    IF ns.group \ {opt} # {} THEN ArgError
    ELSE [taken EXCEPT !.group = ns.group \cup {opt}]

\* a value option and its value
TakeValue(ns, opt, value) ==
    IF opt = "--session-id"
    THEN TakeInGroup(ns, opt, [ns EXCEPT !.session_id = <<value>>])
    ELSE StoreInt(ns, opt, IndexOf(IntTexts, value))

\* an option that takes no value
TakeFlag(ns, opt) ==
    IF opt = "--new-session"
    THEN TakeInGroup(ns, opt, [ns EXCEPT !.new_session = TRUE])
    ELSE IF opt = "--no-voice" THEN [ns EXCEPT !.voice = FALSE]
    ELSE [ns EXCEPT !.keep_input_audio = TRUE]

\* the arguments from the i-th on
RECURSIVE ParseArgv(_, _, _)
ParseArgv(av, i, ns) ==
    IF ns.exit # 0 \/ i > Len(av) THEN ns
    ELSE IF av[i] \in FlagOptions THEN ParseArgv(av, i + 1, TakeFlag(ns, av[i]))
    ELSE IF av[i] \in ValueOptions
    THEN IF i = Len(av) \/ LooksLikeOption(av[i + 1]) THEN ArgError
         ELSE ParseArgv(av, i + 2, TakeValue(ns, av[i], av[i + 1]))
    ELSE ArgError

\* parse_args(): the namespace, or exit = 2
parse_args(av) == ParseArgv(av, 1, DefaultNamespace)

Argvs == UNION { [1..k -> ArgvTokens] : k \in 0..MaxArgv }

InitArgs ==
    /\ ClientIdle
    /\ CallIdle
    /\ LoopIdle
    /\ CaptureIdle
    /\ RecordIdle
    /\ argv \in Argvs
    /\ namespace = Pending

ParseArgs ==
    /\ namespace = Pending
    /\ namespace' = parse_args(argv)
    /\ UNCHANGED <<argv, captureVars, recordVars, clientVars, callVars,
                   loopVars>>

NextArgs == ParseArgs

SpecArgs == InitArgs /\ [][NextArgs]_vars

---------------------------------------------------------------------------
(* capture_turn (src/vincent/whisper_input.py) called on its own, with the *)
(* WAV file turn_wav_path reserves (src/vincent/audio_recording.py).  A    *)
(* directory is the sequence of the names that lead to it from the working *)
(* directory, as the file system resolves the path.                        *)

UpperLetters ==
    { "A", "B", "C", "D", "E", "F", "G", "H", "I", "J", "K", "L", "M",
      "N", "O", "P", "Q", "R", "S", "T", "U", "V", "W", "X", "Y", "Z" }
LowerLetters ==
    { "a", "b", "c", "d", "e", "f", "g", "h", "i", "j", "k", "l", "m",
      "n", "o", "p", "q", "r", "s", "t", "u", "v", "w", "x", "y", "z" }
Digits == { "0", "1", "2", "3", "4", "5", "6", "7", "8", "9" }

\* the character class [A-Za-z0-9_.-]
SafeChars == UpperLetters \cup LowerLetters \cup Digits \cup {"_", ".", "-"}

KEPT_INPUT_AUDIO_DIR == <<".voice_inputs">>

UnknownSession == <<"unknown-session">>

\* re.sub(r"[^A-Za-z0-9_.-]", "_", raw_name)
cleaned(raw_name) ==
    [i \in 1..Len(raw_name) |->
        IF raw_name[i] \in SafeChars THEN raw_name[i] ELSE "_"]

\* a fault of safe_session_dir_name: the characters are kept as they are
SafeSessionDirNameRaw(raw_name) ==
    IF raw_name = <<>> THEN UnknownSession ELSE raw_name

safe_session_dir_name(raw_name) ==
    IF cleaned(raw_name) = <<>> THEN UnknownSession ELSE cleaned(raw_name)

\* KEPT_INPUT_AUDIO_DIR / name, where mkdir and mkstemp find it: pathlib
\* drops a "." component, and the file system takes ".." to the parent
session_dir(name) ==
    IF name = <<".">> THEN <<KEPT_INPUT_AUDIO_DIR>>
    ELSE IF name = <<".", ".">> THEN <<>>
    ELSE <<KEPT_INPUT_AUDIO_DIR, name>>

\* create_kept_input_path: mkstemp creates the file in the session directory
create_kept_input_path(label) ==
    [dir |-> session_dir(safe_session_dir_name(label)), exists |-> TRUE]

\* turn_wav_path on entry: the kept file, or a NamedTemporaryFile
turn_wav_path(keep, label) ==
    IF keep THEN create_kept_input_path(label)
    ELSE [dir |-> <<<<"tmp">>>>, exists |-> TRUE]

\* the session labels: every string of up to MaxLabel of these characters,
\* and the label of a run without a session
LabelChars == { "s", "1", "Z", "_", ".", "-", "/", " " }
NewSessionLabel == <<"n", "e", "w", "-", "s", "e", "s", "s", "i", "o", "n">>
Labels ==
    UNION { [1..k -> LabelChars] : k \in 0..MaxLabel } \cup { NewSessionLabel }

\* what the collaborators of one capture_turn call do: record_wav_until_enter
\* and whisper_to_text return or raise, wav_path.unlink() removes the file
\* or raises OSError and leaves it
RecordOutcomes == {"ok", "RuntimeError", "PortAudioError", "KeyboardInterrupt"}
TranscribeOutcomes == {"ok", "ValueError", "KeyboardInterrupt"}
UnlinkOutcomes == {"ok", "OSError"}
CaptureEnvs ==
    [rec : RecordOutcomes, tr : TranscribeOutcomes, unlink : UnlinkOutcomes,
     raw : { <<" ", "h", "i">> }]

\* the exception raised inside the try of lines 60-72, "none" when both
\* steps return
RaisedInTry(e) == IF e.rec # "ok" THEN e.rec ELSE IF e.tr # "ok" THEN e.tr ELSE "none"

\* KeyboardInterrupt is a BaseException and no Exception
IsException(exc) == exc \notin {"none", "KeyboardInterrupt"}

\* a fault of capture_turn: the kept file is not removed on failure
WavAfterRaiseKept(keep, wav, exc, unlink) ==
    IF keep THEN wav ELSE [wav EXCEPT !.exists = FALSE]

\* lines 73-77 and the exit of the with block: the kept file is unlinked in
\* the except clause, with an OSError of unlink suppressed; the temporary
\* file is deleted when its context is left
WavAfterRaise(keep, wav, exc, unlink) ==
    IF ~keep THEN [wav EXCEPT !.exists = FALSE]
    ELSE IF IsException(exc) /\ unlink = "ok" THEN [wav EXCEPT !.exists = FALSE]
    ELSE wav

\* lines 79-82 and the exit of the with block
WavAfterReturn(keep, wav) ==
    IF keep THEN wav ELSE [wav EXCEPT !.exists = FALSE]

\* capture_turn: the file afterwards and how the call ended
CaptureTurnEnded(keep, wav, e, exc) ==
    IF exc # "none"
    THEN [wav |-> WavAfterRaise(keep, wav, exc, e.unlink),
          result |-> [kind |-> "raise", exc |-> exc, text |-> <<>>, env |-> e]]
    ELSE [wav |-> WavAfterReturn(keep, wav),
          result |-> [kind |-> "return", exc |-> "none", text |-> strip(e.raw),
                      env |-> e]]

capture_turn_call(keep, label, e) ==
    CaptureTurnEnded(keep, turn_wav_path(keep, label), e, RaisedInTry(e))

InitCapture ==
    /\ ClientIdle
    /\ CallIdle
    /\ LoopIdle
    /\ ArgsIdle
    /\ RecordIdle
    /\ keep_input_audio \in BOOLEAN
    /\ input_audio_session \in Labels
    /\ wav_path = NoWav
    /\ captured = Pending

CaptureTurnReturned(ct) ==
    /\ wav_path' = ct.wav
    /\ captured' = ct.result

CaptureTurnCall ==
    /\ captured = Pending
    /\ \E e \in CaptureEnvs :
          CaptureTurnReturned(
              capture_turn_call(keep_input_audio, input_audio_session, e))
    /\ UNCHANGED <<keep_input_audio, input_audio_session, argVars, recordVars,
                   clientVars,
                   callVars, loopVars>>

NextCapture == CaptureTurnCall

SpecCapture == InitCapture /\ [][NextCapture]_vars

---------------------------------------------------------------------------
(* The assistant client called on its own. *)

\* the lines of a process output: blank, no JSON, an event, an event in
\* whitespace, an event followed by more text, a JSON value that is no object
LineSamples ==
    { <<>>, <<" ">>, <<"x">>, <<" ", Ev(6), " ">>, <<Ev(6), "x">> }
    \cup { <<Ev(i)>> : i \in 1..Len(EventTexts) }
    \cup { <<NonObj(i)>> : i \in 1..Len(NonObjectTexts) }

BoundedSeq(S, n) == UNION { [1..k -> S] : k \in 0..n }

\* "\n".join(lines)
RECURSIVE JoinLines(_)
JoinLines(ls) ==
    IF ls = <<>> THEN <<>>
    ELSE IF Len(ls) = 1 THEN ls[1]
    ELSE ls[1] \o NL \o JoinLines(Tail(ls))

Outputs == { JoinLines(ls) : ls \in BoundedSeq(LineSamples, MaxLines) }

NoOptions ==
    [session_id |-> None, model |-> None, agent |-> None, attach |-> None,
     directory |-> None]

InitParse ==
    /\ output \in Outputs
    /\ parsed = Pending
    /\ options = NoOptions
    /\ asked = Pending
    /\ CallIdle
    /\ LoopIdle
    /\ UnitsIdle

ParseEvents ==
    /\ parsed = Pending
    /\ parsed' = parse_opencode_events(output)
    /\ UNCHANGED <<output, options, asked, callVars, loopVars, unitVars>>

NextParse == ParseEvents

SpecParse == InitParse /\ [][NextParse]_vars

\* every run-options value over None, "" and one value per option
OptionsSamples ==
    [session_id : {None, <<>>, S1},
     model : {None, <<>>, Lit("provider/model")},
     agent : {None, <<>>, Lit("helper")},
     attach : {None, <<>>, Lit("http://127.0.0.1:4096")},
     directory : {None, <<>>, Lit("workdir")}]

Prompts == { Hi, <<>> }

\* the args of cli.py that carry the options opts
ArgsOf(opts) ==
    [NoArgs EXCEPT !.opencode_model = opts.model,
                   !.opencode_agent = opts.agent,
                   !.opencode_attach = opts.attach,
                   !.opencode_dir = opts.directory]

InitAsk ==
    /\ output = <<>>
    /\ parsed = Pending
    /\ options \in OptionsSamples
    /\ asked = Pending
    /\ prompt \in Prompts
    /\ proc \in ProcSamples
    /\ cli_asked = Pending
    /\ LoopIdle
    /\ UnitsIdle

\* opencode_client.ask_opencode(prompt, options)
AskOpencode ==
    /\ asked = Pending
    /\ asked' = ask_opencode(prompt, options, proc)
    /\ UNCHANGED <<output, parsed, options, callVars, loopVars, unitVars>>

\* cli.ask_opencode(prompt, args, session_id)
CliAskOpencode ==
    /\ cli_asked = Pending
    /\ cli_asked' = cli_ask_opencode(prompt, ArgsOf(options),
                                     options.session_id, proc)
    /\ UNCHANGED <<clientVars, prompt, proc, loopVars, unitVars>>

NextAsk == AskOpencode \/ CliAskOpencode

SpecAsk == InitAsk /\ [][NextAsk]_vars

---------------------------------------------------------------------------
(* Claims about the assistant client. *)

\* what a line of the output decodes to
LineEvent(l) == json_loads(strip(l))

IsBlankLine(l) == strip(l) = <<>>
IsJsonLine(l) == ~IsBlankLine(l) /\ LineEvent(l).ok
IsObjectLine(l) == IsJsonLine(l) /\ LineEvent(l).value.t = "obj"
IsNonJsonLine(l) == ~IsBlankLine(l) /\ ~LineEvent(l).ok

\* every non-blank line is a JSON object or no JSON at all
WellFormed(out) ==
    \A i \in 1..Len(splitlines(out)) :
        LET l == splitlines(out)[i]
        IN  IsBlankLine(l) \/ IsObjectLine(l) \/ IsNonJsonLine(l)

Field(l, key) == LineEvent(l).value.o[key]

\* the line is an object carrying a non-empty string sessionID
CarriesSession(l) ==
    /\ IsObjectLine(l)
    /\ Field(l, "sessionID").t = "str"
    /\ Field(l, "sessionID").s # <<>>

\* the line is a text event whose part is an object holding a non-empty
\* string text
CarriesText(l) ==
    /\ IsObjectLine(l)
    /\ Field(l, "type") = JStr(<<"text">>)
    /\ Field(l, "part").t = "obj"
    /\ Field(l, "part").o.text.t = "str"
    /\ Field(l, "part").o.text.s # <<>>

\* the texts of lines 1..n, one after the other
RECURSIVE TextsUpTo(_, _)
TextsUpTo(lines, n) ==
    IF n = 0 THEN <<>>
    ELSE TextsUpTo(lines, n - 1)
            \o (IF CarriesText(lines[n])
                THEN Field(lines[n], "part").o.text.s ELSE <<>>)

ExpectedText(out) == strip(TextsUpTo(splitlines(out), Len(splitlines(out))))

ExpectedSession(out) ==
    LET lines == splitlines(out)
        carriers == { i \in 1..Len(lines) : CarriesSession(lines[i]) }
    IN  IF carriers = {} THEN None
        ELSE Field(lines[CHOOSE i \in carriers : \A j \in carriers : j <= i],
                   "sessionID").s

\* the output without its lines that are no JSON
WithoutNonJson(out) ==
    JoinLines(SelectSeq(splitlines(out), LAMBDA l : ~IsNonJsonLine(l)))

\* C1: for an output whose non-blank lines are JSON objects or no JSON,
\* parse_opencode_events returns the texts of the text events joined in
\* input order without separator and stripped, with the sessionID of the
\* last object of any type that carries a non-empty one (None without any);
\* the lines that are no JSON do not change the result.
C1_ParseCollectsTextAndSession ==
    (parsed # Pending /\ WellFormed(output)) =>
        /\ parsed.raised = "none"
        /\ parsed.text = ExpectedText(output)
        /\ parsed.sid = ExpectedSession(output)
        /\ parsed.text = ExpectedText(WithoutNonJson(output))
        /\ parsed.sid = ExpectedSession(WithoutNonJson(output))

\* C1's case: two text events around a line that is no JSON, the first
\* carrying the session id
C1_Witness ==
    /\ output = <<Ev(5), "\n", "x", "\n", Ev(6)>>
    /\ parsed # Pending
    /\ parsed.text = <<"a", " ", " ", "b">>
    /\ parsed.sid = S2

\* the flags of the optional pairs, in the order of the command
FlagOrder == <<"--session", "--model", "--agent", "--attach", "--dir">>

OptionValue(opts, k) ==
    CASE k = 1 -> opts.session_id
      [] k = 2 -> opts.model
      [] k = 3 -> opts.agent
      [] k = 4 -> opts.attach
      [] k = 5 -> opts.directory

NonEmpty(v) == v # None /\ Len(v) > 0

\* the place of option k's flag in cmd: after the four fixed words and the
\* pairs of the non-empty options before it
FlagPlace(opts, k) ==
    5 + 2 * Cardinality({ j \in 1..(k - 1) : NonEmpty(OptionValue(opts, j)) })

CommandAsSpecified(cmd, message, opts) ==
    /\ Len(cmd) =
           5 + 2 * Cardinality({ k \in 1..5 : NonEmpty(OptionValue(opts, k)) })
    /\ SubSeq(cmd, 1, 4) = <<<<"opencode">>, <<"run">>, <<"--format">>, <<"json">>>>
    /\ cmd[Len(cmd)] = message
    /\ \A k \in 1..5 :
          NonEmpty(OptionValue(opts, k)) =>
              /\ cmd[FlagPlace(opts, k)] = <<FlagOrder[k]>>
              /\ cmd[FlagPlace(opts, k) + 1] = OptionValue(opts, k)

\* C2: the argv is opencode run --format json, then the pairs --session,
\* --model, --agent, --attach, --dir in that order, each present iff its
\* option is neither None nor "", then the message; its length is 5 plus
\* twice the number of non-empty options.  Both build_opencode_command.
C2_CommandHasNonEmptyOptionsInOrder ==
    /\ asked # Pending => CommandAsSpecified(asked.command, prompt, options)
    /\ cli_asked # Pending =>
           CommandAsSpecified(cli_asked.command, prompt, options)

\* C2's case: a command with some options empty, some None, some set
C2_Witness ==
    /\ asked # Pending
    /\ cli_asked # Pending
    /\ options.session_id = S1
    /\ options.model = <<>>
    /\ options.agent = None
    /\ options.attach # None /\ options.attach # <<>>
    /\ options.directory # None /\ options.directory # <<>>
    /\ Len(asked.command) = 11
    /\ cli_asked.command = asked.command

ExitedZero == proc.kind = "completed" /\ proc.returncode = 0

\* what ask_opencode is to give for a process that exited with code zero
ReturnsParsedOrCallers(res) ==
    LET r == parse_opencode_events(proc.stdout)
    IN  IF r.raised # "none"
        THEN res.kind = "raise" /\ res.exc = r.raised
        ELSE /\ res.kind = "return"
             /\ res.text = r.text
             /\ res.sid = IF r.sid # None THEN r.sid ELSE options.session_id
             /\ options.session_id # None => res.sid # None

\* C7: when the process exits with code zero, ask_opencode returns the text
\* and session id parse_opencode_events yields for its standard output (an
\* exception of the parser passes through), with the caller's session id
\* when none was discovered; so a non-null caller's id gives a non-null id.
C7_ReturnKeepsCallersSession ==
    ExitedZero =>
        /\ asked # Pending => ReturnsParsedOrCallers(asked)
        /\ cli_asked # Pending => ReturnsParsedOrCallers(cli_asked)

\* C7's case: the output carries a text and no session id, the caller has one
C7_Witness ==
    /\ ExitedZero
    /\ proc.stdout = <<Ev(6)>>
    /\ options.session_id = S1
    /\ asked # Pending /\ asked.sid = S1 /\ asked.text = <<"b">>
    /\ cli_asked # Pending /\ cli_asked.sid = S1

\* C8: when the process exits with a code c other than zero, ask_opencode
\* raises RuntimeError("opencode run failed (c): d"), d being the stripped
\* standard error when that is not empty and else the stripped standard
\* output; nothing is parsed or returned.  Code 7 with stderr "boom" gives
\* "opencode run failed (7): boom".
C8_NonZeroExitRaisesWithDetails ==
    (asked # Pending /\ proc.kind = "completed" /\ proc.returncode # 0) =>
        /\ asked.kind = "raise"
        /\ asked.exc = "RuntimeError"
        /\ asked.text = <<>>
        /\ asked.sid = None
        /\ asked.msg =
              <<"opencode run failed (">> \o IntToStr(proc.returncode)
                  \o <<"): ">>
                  \o (IF strip(proc.stderr) # <<>> THEN strip(proc.stderr)
                      ELSE strip(proc.stdout))
        /\ (proc.returncode = 7 /\ proc.stderr = Boom) =>
              asked.msg = <<"opencode run failed (", "7", "): ",
                            "b", "o", "o", "m">>

\* C8's case: the exit code 1, a blank standard error, a standard output
C8_Witness ==
    /\ asked # Pending
    /\ proc.kind = "completed"
    /\ proc.returncode = 1
    /\ proc.stderr = <<" ", "\n">>
    /\ asked.msg = <<"opencode run failed (", "1", "): ", "x">>

\* C9: when the executable is not found, opencode_client.ask_opencode
\* raises a RuntimeError whose message names the missing opencode command;
\* when the launch fails with another OSError, a RuntimeError carrying its
\* reason; no FileNotFoundError or OSError leaves ask_opencode.
C9_LaunchFailuresBecomeRuntimeError ==
    asked # Pending =>
        /\ proc.kind = "FileNotFoundError" =>
              /\ asked.kind = "raise"
              /\ asked.exc = "RuntimeError"
              /\ asked.msg = <<"'opencode' executable was not found in PATH">>
        /\ proc.kind = "PermissionError" =>
              /\ asked.kind = "raise"
              /\ asked.exc = "RuntimeError"
              /\ Len(asked.msg) = 2
              /\ asked.msg[1] = "Failed to launch 'opencode': "
              /\ <<asked.msg[2]>> = proc.reason
        /\ asked.kind = "raise" =>
              asked.exc \notin {"FileNotFoundError", "PermissionError", "OSError"}

\* C9's case: the launch failed with a PermissionError
C9_Witness ==
    /\ asked # Pending
    /\ proc.kind = "PermissionError"
    /\ asked.exc = "RuntimeError"

---------------------------------------------------------------------------
(* Claims about the turn loop. *)

\* the session file holds {"session_id": sid} and nothing else
FileHolds(f, sid) ==
    /\ f # Missing
    /\ json_loads(f).ok
    /\ json_loads(f).value = JState(JStr(sid))

\* C3: when a dispatch returns a non-null session id that differs from the
\* current one, the current id is that value and the session file holds
\* exactly that value before the next capture begins; a dispatch that
\* discovers no session id leaves the id and the file as they were.
C3_SessionPersistedBeforeNextCapture ==
    [][ ( /\ pc = "dispatch"
          /\ pc' \in {"capture", "speak"}
          /\ cli_asked'.kind = "return" ) =>
            /\ (cli_asked'.sid # None /\ cli_asked'.sid # session_id) =>
                  /\ session_id' = cli_asked'.sid
                  /\ FileHolds(file', cli_asked'.sid)
            /\ parse_opencode_events(proc'.stdout).sid = None =>
                  /\ session_id' = session_id
                  /\ file' = file
      ]_vars

\* C3's case: a run started without a session id has taken the id s2 from a
\* dispatch and is at its next capture
C3_Witness ==
    /\ args.new_session
    /\ pc = "capture"
    /\ last.step = "dispatch"
    /\ last.saved
    /\ session_id = S2
    /\ FileHolds(file, S2)

\* C4: once the loop is entered, run_voice_chat ends only by a user
\* interrupt or an exit phrase: no failure of capture, dispatch, session
\* file or playback ends it or leaves it as an exception.
C4_LoopEndsOnlyByStopOrExitPhrase ==
    last.step \in {"capture", "dispatch", "speak"} =>
        /\ escaped = "none"
        /\ pc \in {"capture", "dispatch", "speak", "Stopped", "ExitPhrase"}

\* the failures of the assistant client: the executable is not found, the
\* launch fails otherwise, the process exits with a code other than zero
DispatchFailure(p) ==
    \/ p.kind \in {"FileNotFoundError", "PermissionError"}
    \/ p.kind = "completed" /\ p.returncode # 0

\* C5: a dispatch that fails with one of the client's failures writes the
\* error to the status channel, renders and speaks nothing, leaves the
\* session id and the session file as they were, and goes on to the next
\* capture.
C5_DispatchFailureIsReportedAndSkipped ==
    [][ (pc = "dispatch" /\ DispatchFailure(proc')) =>
            /\ pc' = "capture"
            /\ Len(status') = 2
            /\ shown' = <<>>
            /\ session_id' = session_id
            /\ file' = file
      ]_vars

\* the transcripts of the model whose stripped, lower-cased form is an exit
\* phrase, as capture_turn returns them
ExitTranscripts ==
    { <<"q", "u", "i", "t">>, <<"Q", "u", "i", "t">>,
      <<"G", "O", "O", "D", "B", "Y", "E">>, <<"e", "x", "i", "t">> }

\* C6: a transcript whose stripped, lower-cased form is exit, quit or
\* goodbye ends the loop in its iteration and is never given to the
\* assistant client; any other non-empty transcript is dispatched.
C6_ExitPhraseEndsLoopUndispatched ==
    /\ (last.step = "capture" /\ last.outcome = "ok" /\ user_text # <<>>) =>
          IF user_text \in ExitTranscripts THEN pc = "ExitPhrase"
          ELSE pc = "dispatch"
    /\ pc = "ExitPhrase" => user_text \in ExitTranscripts
    /\ pc \in {"dispatch", "speak"} => user_text \notin ExitTranscripts
    /\ proc.kind # "none" => prompt \notin ExitTranscripts

\* C6's case: "  Quit " was said and the loop has ended
C6_Witness ==
    /\ pc = "ExitPhrase"
    /\ user_text = <<"Q", "u", "i", "t">>
    /\ proc.kind = "none"

\* C10: a KeyboardInterrupt during capture, dispatch or speak ends the loop
\* at once: "Stopped." is written, nothing is rendered, saved or raised, and
\* run_voice_chat returns.
C10_InterruptStopsLoop ==
    ( /\ last.step \in {"capture", "dispatch", "speak"}
      /\ last.outcome = "KeyboardInterrupt" ) =>
        /\ pc = "Stopped"
        /\ escaped = "none"
        /\ status[Len(status)] = StoppedMsg
        /\ shown = <<>>
        /\ ~last.saved

---------------------------------------------------------------------------
(* Claims about the session store. *)

\* C11: resolve_session_id takes an explicit id first: it writes the id to
\* the session file and returns it.  Without one and with new_session set
\* it returns None and neither reads nor changes the file, whatever the
\* file holds.  Otherwise it ends as load_session_id(path) ends.
C11_ResolvePrecedence ==
    [][ last'.step = "resolve" =>
          IF args.session_id # None /\ args.session_id # <<>>
          THEN /\ status' = <<>>
               /\ escaped' \in {"none", "OSError"}
               /\ last'.outcome[1] = "ok" =>
                     /\ escaped' = "none"
                     /\ session_id' = args.session_id
                     /\ FileHolds(file', args.session_id)
          ELSE IF args.new_session
          THEN /\ session_id' = None
               /\ file' = file
               /\ status' = <<>>
               /\ escaped' = "none"
          ELSE /\ file' = file
               /\ session_id' = load_session_id(file, last'.outcome[2]).value
               /\ escaped' = load_session_id(file, last'.outcome[2]).raised
               /\ status' = load_session_id(file, last'.outcome[2]).status
      ]_vars

\* C11's case: --new-session has returned None beside a file that still
\* holds the id saved earlier
C11_Witness ==
    /\ pc = "store"
    /\ last.step = "resolve"
    /\ args.new_session
    /\ args.session_id = None
    /\ session_id = None
    /\ FileHolds(file, S1)

\* a save of a non-blank id has returned and the next call is a load that
\* reads the file
SavedThenLoaded ==
    /\ last.step = "save"
    /\ last.saved
    /\ strip(session_id) # <<>>
    /\ last'.step = "load"
    /\ last'.outcome = "ok"

\* C12: for every session id X that is not blank, save_session_id(path, X)
\* followed by load_session_id(path) returns X unchanged.
C12_SaveThenLoadReturnsId ==
    [][ SavedThenLoaded => (escaped' = "none" /\ session_id' = session_id) ]_vars

\* C12 as amended: the load returns X without the whitespace at its ends,
\* so X itself exactly when X has none.
C12_SaveThenLoadReturnsStrippedId ==
    [][ SavedThenLoaded =>
          /\ escaped' = "none"
          /\ session_id' = strip(session_id)
          /\ (session_id' = session_id) <=>
                (~IsSpace(session_id[1]) /\ ~IsSpace(session_id[Len(session_id)]))
      ]_vars

\* C12's case: the id s2, which only a save puts into the file, was loaded
C12_Witness ==
    /\ last.step = "load"
    /\ last.outcome = "ok"
    /\ session_id = S2
    /\ FileHolds(file, S2)

\* the ids a session file of the model can give: the file holds an object
\* whose session_id is a string that is not blank
UsableIds == { S1, S2, PaddedS1 }

\* C13: load_session_id returns None and never raises for every state of
\* the session file: missing, unreadable, no JSON, JSON that is no object,
\* or an object whose session_id is absent, no string, or blank.
C13_LoadReturnsNoneOnBadFile ==
    last.step = "load" =>
        /\ escaped = "none"
        /\ (\/ last.outcome # "ok"
            \/ \A x \in UsableIds : ~FileHolds(file, x)) => session_id = None

---------------------------------------------------------------------------
(* Claims about the session store inside the program. *)

\* C14: when writing the session file fails, at startup with an explicit
\* id or after a dispatch that discovered a new id, the failure is reported,
\* the new id is kept in memory, and neither the turn nor the loop ends.
C14_WriteFailureKeepsIdInMemory ==
    [][ /\ ( /\ pc = "start"
             /\ args.session_id # None /\ strip(args.session_id) # <<>>
             /\ ~last'.saved ) =>
                /\ pc' # "crashed"
                /\ escaped' # "OSError"
                /\ session_id' = args.session_id
                /\ status' # <<>>
        /\ ( /\ pc = "dispatch"
             /\ cli_asked'.kind = "return"
             /\ cli_asked'.sid # None /\ strip(cli_asked'.sid) # <<>>
             /\ cli_asked'.sid # session_id
             /\ ~last'.saved ) =>
                /\ pc' \in {"capture", "speak"}
                /\ escaped' = "none"
                /\ session_id' = cli_asked'.sid
                /\ Len(status') >= 2
      ]_vars

---------------------------------------------------------------------------
(* Claims about the start of the program. *)

FailedWhisperMsg == <<"Failed to load Whisper model">>
FailedVoiceMsg == <<"Voice requested but unavailable">>

\* startup got as far as loading the models: resolve_session_id returned
ModelsLoaded == last.step = "startup" /\ escaped \in {"none", "SystemExit(2)"}

\* C15: if loading the transcription model fails, or voice is requested and
\* building the speaker fails, the program reports it and exits with code 2
\* and no turn is ever captured or dispatched; with voice disabled a
\* speaker that cannot be built aborts nothing.
C15_StartupFailureExitsBeforeAnyTurn ==
    /\ (ModelsLoaded /\ last.outcome \in {"whisper_fails", "both_fail"}) =>
          /\ pc = "exit"
          /\ escaped = "SystemExit(2)"
          /\ status[Len(status)] = FailedWhisperMsg
    /\ (ModelsLoaded /\ last.outcome = "speaker_fails" /\ args.voice) =>
          /\ pc = "exit"
          /\ escaped = "SystemExit(2)"
          /\ status[Len(status)] = FailedVoiceMsg
    /\ (ModelsLoaded /\ last.outcome = "speaker_fails" /\ ~args.voice) =>
          /\ pc = "capture"
          /\ escaped = "none"
    /\ pc = "exit" =>
          /\ last.step = "startup"
          /\ user_text = <<>>
          /\ proc.kind = "none"
          /\ shown = <<>>
    /\ ~args.voice => ~speaker

\* C15's case: voice was requested, the speaker could not be built, and the
\* program has exited
C15_Witness ==
    /\ pc = "exit"
    /\ args.voice
    /\ last.outcome = "speaker_fails"
    /\ escaped = "SystemExit(2)"

---------------------------------------------------------------------------
(* Claims about the command line. *)

\* the i-th argument is opt and the next one is its value
GivenAt(av, i, opt) == i < Len(av) /\ av[i] = opt

Has(av, tok) == \E i \in 1..Len(av) : av[i] = tok

\* the command lines the claim says are rejected
NonPositiveInput(av) ==
    \E i \in 1..Len(av) :
        /\ GivenAt(av, i, "--input-sample-rate") \/ GivenAt(av, i, "--input-channels")
        /\ av[i + 1] \in {"0", "-1"}

BothSessionFlags(av) == Has(av, "--session-id") /\ Has(av, "--new-session")

RemovedFlag(av) == Has(av, "--model")

\* C16: parse_args exits with a non-zero code for every command line in
\* which --input-sample-rate or --input-channels is zero or negative, in
\* which --session-id and --new-session are both given, or which holds an
\* unknown or removed flag such as --model.
C16_ParseArgsRejectsInvalid ==
    (namespace # Pending
        /\ (NonPositiveInput(argv) \/ BothSessionFlags(argv) \/ RemovedFlag(argv)))
    => namespace.exit # 0

---------------------------------------------------------------------------
(* Claims about capture_turn and its WAV file. *)

\* recording or transcription failed in a call that keeps its input audio
KeptCaptureFailed ==
    /\ captured # Pending
    /\ keep_input_audio
    /\ \/ captured.env.rec \notin {"ok", "KeyboardInterrupt"}
       \/ /\ captured.env.rec = "ok"
          /\ captured.env.tr \notin {"ok", "KeyboardInterrupt"}

\* the error of the step that failed
FailedWith == IF captured.env.rec # "ok" THEN captured.env.rec ELSE captured.env.tr

\* C17: with keep_input_audio, when recording or transcription fails the
\* reserved WAV file no longer exists when the error reaches the caller,
\* and the error that reaches the caller is the one raised; when the turn
\* succeeds the file is retained.
C17_KeptFileGoneOnFailure ==
    /\ KeptCaptureFailed =>
          /\ captured.kind = "raise"
          /\ captured.exc = FailedWith
          /\ ~wav_path.exists
    /\ (captured # Pending /\ keep_input_audio /\ captured.kind = "return") =>
          wav_path.exists

\* C17 as amended: the file has been unlinked, so it no longer exists
\* unless the unlink itself raised an OSError, which is suppressed.
C17_KeptFileUnlinkedOnFailure ==
    /\ KeptCaptureFailed =>
          /\ captured.kind = "raise"
          /\ captured.exc = FailedWith
          /\ wav_path.exists <=> captured.env.unlink = "OSError"
    /\ (captured # Pending /\ keep_input_audio /\ captured.kind = "return") =>
          wav_path.exists

\* C17's case: the recording of a kept turn raised and the file is gone
C17_Witness ==
    /\ KeptCaptureFailed
    /\ captured.env.rec = "RuntimeError"
    /\ captured.exc = "RuntimeError"
    /\ ~wav_path.exists

\* the label with every character outside [A-Za-z0-9_.-] replaced by "_",
\* "unknown-session" for the empty label
SanitizedLabel(label) ==
    IF label = <<>> THEN <<"unknown-session">>
    ELSE [i \in 1..Len(label) |->
             IF label[i] \in {"s", "1", "Z", "_", ".", "-", "n", "e", "w", "i", "o"}
             THEN label[i] ELSE "_"]

\* C18: with keep_input_audio the turn's WAV file is created in the
\* directory .voice_inputs/<name>, <name> being the sanitized label: a
\* subdirectory of .voice_inputs, never .voice_inputs itself and never a
\* directory outside it.
C18_KeptFileInsideSessionDir ==
    (captured # Pending /\ keep_input_audio) =>
        /\ Len(wav_path.dir) = 2
        /\ wav_path.dir[1] = <<".voice_inputs">>
        /\ wav_path.dir[2] = SanitizedLabel(input_audio_session)

---------------------------------------------------------------------------
(* Claims about values the program takes from outside. *)

\* the output has a non-blank line that is JSON and no object
HasNonObjectLine(out) ==
    \E i \in 1..Len(splitlines(out)) :
        IsJsonLine(splitlines(out)[i]) /\ ~IsObjectLine(splitlines(out)[i])

\* the output without its JSON lines that are no objects
WithoutNonObject(out) ==
    JoinLines(SelectSeq(splitlines(out),
                        LAMBDA l : ~(IsJsonLine(l) /\ ~IsObjectLine(l))))

\* C19: parse_opencode_events skips every non-blank line that is JSON but
\* no object (a number, string, array, true, false, null): it raises
\* nothing and returns what it returns for the output without that line.
C19_NonObjectLinesAreSkipped ==
    (parsed # Pending /\ HasNonObjectLine(output)) =>
        /\ parsed.raised = "none"
        /\ parsed.text = ExpectedText(WithoutNonObject(output))
        /\ parsed.sid = ExpectedSession(WithoutNonObject(output))

\* a str that is empty or whitespace only
IsBlank(sid) == sid # None /\ strip(sid) = <<>>

\* the argv of the last dispatch passes a blank value as --session
BlankSessionFlag(cmd) ==
    \E i \in 1..(Len(cmd) - 1) : cmd[i] = <<"--session">> /\ strip(cmd[i + 1]) = <<>>

\* C20: the current session id is always None or a string with a character
\* that is no whitespace: a blank id from --session-id, from the session
\* file or from an assistant event counts as no session, is never written
\* to the session file and never passed to the assistant as --session.
C20_SessionIdNeverBlank ==
    /\ ~IsBlank(session_id)
    /\ last.saved => ~FileHolds(file, <<" ">>)
    /\ cli_asked # Pending => ~BlankSessionFlag(cli_asked.command)

---------------------------------------------------------------------------
(* Claims about the order of the steps of a turn. *)

\* a transcript that may be given to the assistant
Dispatchable(text) == strip(text) # <<>> /\ text \notin ExitTranscripts

\* C21: an iteration starts at most one assistant process, and only for a
\* transcript that is non-empty and no exit phrase; the session update, the
\* render and the next capture begin only once that process has exited; no
\* transcript is dispatched twice, a failed dispatch is not retried.
C21_OneDispatchPerTurn ==
    [][ /\ pc = "dispatch" =>
              /\ Dispatchable(user_text)
              /\ prompt' = user_text
              /\ proc'.kind # "none"
              /\ pc' # "dispatch"
              /\ (session_id' # session_id \/ file' # file \/ shown' # <<>>
                    \/ pc' = "speak") =>
                    proc'.kind = "completed" /\ proc'.returncode = 0
        /\ pc # "dispatch" => UNCHANGED <<prompt, proc, cli_asked>>
        /\ pc' = "dispatch" =>
              /\ pc = "capture"
              /\ last'.step = "capture" /\ last'.outcome = "ok"
      ]_vars

\* C21's case: the assistant process of a turn exited with a failure and the
\* loop is at the capture of the next turn
C21_Witness ==
    /\ pc = "capture"
    /\ last.step = "dispatch"
    /\ proc.kind = "completed" /\ proc.returncode # 0
    /\ prompt = Hi

\* the failures of playback that are no interrupt
PlaybackFailures == {"RuntimeError", "ValueError", "OSError", "PortAudioError"}

\* C24: with voice enabled a playback failure that is no interrupt is
\* reported on the status channel and the loop goes on to the next capture
\* with the session as it was; an interrupt during speak stops the loop;
\* the speaker is called only after the assistant line was rendered, at most
\* once per turn, and never when voice is disabled.
C24_PlaybackFailureIsReported ==
    [][ /\ (pc = "speak" /\ last'.outcome \in PlaybackFailures) =>
              /\ pc' = "capture"
              /\ Len(status') = 1
              /\ status'[1][1] = "Kokoro playback failed: "
              /\ escaped' = "none"
              /\ session_id' = session_id
              /\ file' = file
        /\ (pc = "speak" /\ last'.outcome = "KeyboardInterrupt") =>
              pc' = "Stopped"
        /\ pc = "speak" => pc' # "speak"
        /\ last'.step = "speak" => pc = "speak"
        /\ pc' = "speak" =>
              /\ pc = "dispatch"
              /\ args.voice
              /\ Len(shown') = 1
              /\ shown'[1][1] = "Assistant:"
      ]_vars

\* C24's case: playback of a reply failed with an OSError and the loop is at
\* the next capture
C24_Witness ==
    /\ pc = "capture"
    /\ last.step = "speak"
    /\ last.outcome = "OSError"
    /\ args.voice
    /\ escaped = "none"

\* C25: a capture that fails is reported on the status channel and a new
\* capture starts; a capture whose transcript is empty after trimming is
\* reported as "No speech detected." and a new capture starts; in both cases
\* no user line is rendered, nothing is dispatched, and the session id and
\* the session file stay as they were.
C25_CaptureFailureRetries ==
    [][ /\ ( /\ pc = "capture"
             /\ last'.outcome \notin {"ok", "KeyboardInterrupt"} ) =>
                /\ pc' = "capture"
                /\ status' # <<>>
                /\ shown' = <<>>
                /\ UNCHANGED <<session_id, file, prompt, proc, cli_asked>>
        /\ ( /\ pc = "capture"
             /\ last'.outcome = "ok"
             /\ user_text' = <<>> ) =>
                /\ pc' = "capture"
                /\ status' = << <<"No speech detected.", "\n">> >>
                /\ shown' = <<>>
                /\ UNCHANGED <<session_id, file, prompt, proc, cli_asked>>
      ]_vars

NoTextMsg == <<"opencode returned no text response.", "\n">>

\* the dispatch of this step returned an empty reply text
EmptyReply == pc = "dispatch" /\ cli_asked'.kind = "return" /\ cli_asked'.text = <<>>

\* C26: when a dispatch that succeeded returns an empty reply text, it is
\* reported that no text response was returned, no assistant line is
\* rendered, the speaker is not called, and the next capture follows.
C26_EmptyReplyIsReportedAndSkipped ==
    [][ EmptyReply =>
            /\ pc' = "capture"
            /\ status' # <<>>
            /\ status'[Len(status')] = NoTextMsg
            /\ shown' = <<>>
      ]_vars

\* the dispatch of this step returned an empty reply and a session id that
\* is not the current one
EmptyReplyNewSession ==
    /\ EmptyReply
    /\ cli_asked'.sid # None
    /\ cli_asked'.sid # session_id

\* C27: the session id is updated before the reply is looked at: a
\* dispatch that returns an empty reply and a session id other than the
\* current one stores the new id in memory and writes it to the session
\* file in that iteration (the file holds it unless the write itself
\* raised), though nothing is rendered or spoken.
C27_SessionUpdatePrecedesEmptyCheck ==
    [][ EmptyReplyNewSession =>
            /\ session_id' = cli_asked'.sid
            /\ shown' = <<>>
            /\ pc' # "speak"
            /\ \/ last'.saved /\ FileHolds(file', cli_asked'.sid)
               \/ ~last'.saved /\ pc' = "crashed" /\ escaped' = "OSError"
      ]_vars

\* C27's case: a run without a session got the id s1 from a dispatch whose
\* reply was empty, and the file holds it
C27_Witness ==
    /\ pc = "capture"
    /\ last.step = "dispatch"
    /\ last.saved
    /\ args.new_session
    /\ cli_asked.kind = "return"
    /\ cli_asked.text = <<>>
    /\ session_id = S1
    /\ FileHolds(file, S1)
    /\ shown = <<>>

\* what load_session_id returns for the session file when it can be read
LoadedNow == load_session_id(file, "ok")

\* C28: when every write of the session file succeeded, at the start of
\* every capture the current session id is None or the value
\* load_session_id returns for the session file.
C28_SessionIdAgreesWithFile ==
    pc = "capture" =>
        \/ session_id = None
        \/ LoadedNow.raised = "none" /\ LoadedNow.value = session_id

\* the value of --session in an opencode command, None without the flag
SessionOf(cmd) ==
    IF Len(cmd) >= 6 /\ cmd[5] = <<"--session">> THEN cmd[6] ELSE None

\* C29: a session id that is not None never becomes None again; it changes
\* only in an iteration whose dispatch succeeded, and only to a session id
\* the assistant process reported in that dispatch; every dispatch is built
\* with the session id current at that moment.
C29_SessionIdChangesOnlyByDispatch ==
    [][ /\ session_id # None => session_id' # None
        /\ (pc # "start" /\ session_id' # session_id) =>
              /\ pc = "dispatch"
              /\ proc'.kind = "completed" /\ proc'.returncode = 0
              /\ cli_asked'.kind = "return"
              /\ session_id' = parse_opencode_events(proc'.stdout).sid
        /\ pc = "dispatch" => SessionOf(cli_asked'.command) = session_id
      ]_vars

\* C29's case: a run that started with the saved id s1 was given s2 by a
\* dispatch built with s1
C29_Witness ==
    /\ last.step = "dispatch"
    /\ cli_asked # Pending
    /\ SessionOf(cli_asked.command) = S1
    /\ session_id = S2

\* C30: the session is resolved before the models are loaded: when
\* --session-id is given and startup then aborts, the session file already
\* holds the explicit id; when it is not given, a startup that aborts leaves
\* the session file as it was.
C30_SessionResolvedBeforeModels ==
    [][ /\ (pc = "start" /\ pc' = "exit" /\ Truthy(args.session_id)) =>
              /\ FileHolds(file', args.session_id)
              /\ session_id' = args.session_id
        /\ (pc = "start" /\ pc' \in {"exit", "crashed"}
                /\ ~Truthy(args.session_id)) =>
              file' = file
      ]_vars

\* C30's case: --session-id s2 was given over a file that held s1, Whisper
\* could not be loaded, and the file holds s2
C30_Witness ==
    /\ pc = "exit"
    /\ args.session_id = S2
    /\ last.outcome \in {"whisper_fails", "both_fail"}
    /\ FileHolds(file, S2)

---------------------------------------------------------------------------
(* record_wav_until_enter (src/vincent/audio_recording.py), called turn     *)
(* after turn.  Three kinds of thread take steps: the main thread, the     *)
(* wait_for_enter thread of every call, and the audio callback.  A         *)
(* wait_for_enter thread is "blocked" in input(), "woken" once input() has *)
(* returned or raised EOFError, "ended" once it has set its stop_event.    *)

Turns == 1..MaxTurns

NoAudioMsg == <<"No audio captured from microphone">>

\* how a call ends: wav tells whether the WAV file was written
RecordReturned == [kind |-> "return", exc |-> "none", msg |-> <<>>, wav |-> TRUE]
RecordRaised(exc, msg) == [kind |-> "raise", exc |-> exc, msg |-> msg, wav |-> FALSE]

\* what opening the input stream does (line 90): sounddevice raises
\* PortAudioError when there is no usable input device
OpenOutcomes == {"ok", "PortAudioError"}

\* a fault of the caller: every failure that is no interrupt is retried
CallsAgainAfterAnyFailure ==
    IF recorded = Pending THEN TRUE ELSE recorded.exc # "KeyboardInterrupt"

\* the caller, run_voice_chat (cli.py 353-368): the next turn is captured
\* after a turn that returned and after a RuntimeError; KeyboardInterrupt
\* and every other exception end the program, and its threads with it
CallsAgain ==
    IF recorded = Pending THEN TRUE
    ELSE recorded.kind = "return" \/ recorded.exc = "RuntimeError"

\* lines 68-88: a new list of chunks, a new stop_event, and a daemon thread
\* that is started before the input stream is opened
RecordCall ==
    /\ rec_pc = "idle"
    /\ turn < MaxTurns
    /\ CallsAgain
    /\ turn' = turn + 1
    /\ rec_chunks' = 0
    /\ stop_events' = [stop_events EXCEPT ![turn + 1] = FALSE]
    /\ waiters' = [waiters EXCEPT ![turn + 1] = "blocked"]
    /\ rec_pc' = "started"
    /\ recorded' = Pending
    /\ UNCHANGED <<clientVars, callVars, loopVars, argVars, captureVars>>

\* lines 90-95: the stream is opened, or the call ends with the error; the
\* thread is neither joined nor told to stop
OpenStream ==
    /\ rec_pc = "started"
    /\ \E o \in OpenOutcomes :
          IF o = "ok"
          THEN rec_pc' = "poll" /\ recorded' = recorded
          ELSE /\ rec_pc' = "idle"
               /\ recorded' = RecordRaised(o, <<"Error opening InputStream">>)
    /\ UNCHANGED <<turn, waiters, stop_events, rec_chunks, clientVars, callVars,
                   loopVars, argVars, captureVars>>

\* lines 71-79: the audio thread delivers a chunk while the stream is open
Callback ==
    /\ rec_pc = "poll"
    /\ rec_chunks < MaxChunks
    /\ rec_chunks' = rec_chunks + 1
    /\ UNCHANGED <<turn, rec_pc, waiters, stop_events, recorded, clientVars,
                   callVars, loopVars, argVars, captureVars>>

\* a fault of the polling loop: it is left after one sleep
PollOnce ==
    /\ rec_pc = "poll"
    /\ rec_pc' = "closed"
    /\ UNCHANGED <<turn, waiters, stop_events, rec_chunks, recorded, clientVars,
                   callVars, loopVars, argVars, captureVars>>

\* lines 96-97: the loop is left, and the stream closed, when the call's own
\* stop_event is set; otherwise the thread sleeps and looks again
Poll ==
    /\ rec_pc = "poll"
    /\ rec_pc' = IF stop_events[turn] THEN "closed" ELSE "poll"
    /\ UNCHANGED <<turn, waiters, stop_events, rec_chunks, recorded, clientVars,
                   callVars, loopVars, argVars, captureVars>>

\* line 97: Ctrl-C raises KeyboardInterrupt in the main thread
InterruptRecording ==
    /\ rec_pc = "poll"
    /\ rec_pc' = "idle"
    /\ recorded' = RecordRaised("KeyboardInterrupt", <<>>)
    /\ UNCHANGED <<turn, waiters, stop_events, rec_chunks, clientVars, callVars,
                   loopVars, argVars, captureVars>>

\* a fault of lines 99-106: a recording without chunks is written too
RecordEndedAlwaysWrites(n) == RecordReturned

\* lines 99-106
RecordEnded(n) ==
    IF n = 0 THEN RecordRaised("RuntimeError", NoAudioMsg) ELSE RecordReturned

FinishRecording ==
    /\ rec_pc = "closed"
    /\ rec_pc' = "idle"
    /\ recorded' = RecordEnded(rec_chunks)
    /\ UNCHANGED <<turn, waiters, stop_events, rec_chunks, clientVars, callVars,
                   loopVars, argVars, captureVars>>

\* lines 82-83: Enter is pressed, or the terminal is at its end, and the
\* input() of a blocked thread returns or raises EOFError; which of several
\* blocked threads reads the line is not determined
WaiterWakes(t) ==
    /\ waiters[t] = "blocked"
    /\ waiters' = [waiters EXCEPT ![t] = "woken"]
    /\ UNCHANGED <<turn, rec_pc, stop_events, rec_chunks, recorded, clientVars,
                   callVars, loopVars, argVars, captureVars>>

\* line 84: stop_event.set(), on the Event of the thread's own call
WaiterSets(t) ==
    /\ waiters[t] = "woken"
    /\ waiters' = [waiters EXCEPT ![t] = "ended"]
    /\ stop_events' = [stop_events EXCEPT ![t] = TRUE]
    /\ UNCHANGED <<turn, rec_pc, rec_chunks, recorded, clientVars, callVars,
                   loopVars, argVars, captureVars>>

WaiterStep == \E t \in Turns : WaiterWakes(t) \/ WaiterSets(t)

InitRecord ==
    /\ ClientIdle
    /\ CallIdle
    /\ LoopIdle
    /\ ArgsIdle
    /\ CaptureIdle
    /\ RecordIdle

NextRecord ==
    \/ RecordCall
    \/ OpenStream
    \/ Callback
    \/ Poll
    \/ InterruptRecording
    \/ FinishRecording
    \/ WaiterStep

SpecRecord == InitRecord /\ [][NextRecord]_vars

\* the main thread looks at the flag again and again, and a woken thread
\* goes on to set its flag
SpecRecordFair ==
    /\ SpecRecord
    /\ WF_vars(Poll)
    /\ \A t \in Turns : WF_vars(WaiterSets(t))

---------------------------------------------------------------------------
(* Claims about the threads of a recording. *)

Blocked(w) == { t \in Turns : w[t] = "blocked" }

\* a recording is running: the call was made and has not ended
Recording == rec_pc \in {"started", "poll"}

\* C22: over any sequence of turns at most one wait_for_enter thread is
\* blocked on the terminal at any time: when a recording has ended, by a
\* return or by a failure raised before Enter was pressed, no thread of that
\* turn is left to read the Enter of a later turn, so the line read during
\* the recording of turn N is read by the thread of turn N and sets the
\* stop flag of turn N.
C22_OneWaiterAtATime ==
    [][ /\ Cardinality(Blocked(waiters')) <= 1
        /\ Recording' => \A t \in Turns : t # turn' => waiters'[t] # "blocked"
        /\ \A t \in Turns :
              (Recording /\ waiters[t] = "blocked" /\ waiters'[t] = "woken")
                  => t = turn
        /\ \A t \in Turns :
              (Recording /\ ~stop_events[t] /\ stop_events'[t]) => t = turn
      ]_vars

\* C22's case: the first turn has ended, the second is being recorded, and
\* the Enter pressed now was read by the thread of the second turn
C22_Witness ==
    /\ turn = 2
    /\ rec_pc = "poll"
    /\ waiters[1] = "ended"
    /\ waiters[2] = "woken"
    /\ Blocked(waiters) = {}

\* the thread of the running call has read its line
OwnWaiterWoken == rec_pc = "poll" /\ waiters[turn] \in {"woken", "ended"}

\* C23: once the terminal read of the call's thread has returned, the stop
\* flag is set and the polling loop ends at its next look, so the recording
\* stops; the loop is never left while the flag is unset; a flag that is set
\* is never cleared; a recording that stops without a chunk fails with "No
\* audio captured from microphone" and writes no WAV file.
C23_EnterStopsRecording ==
    /\ [][ /\ \A t \in Turns :
                 /\ (waiters[t] = "woken" /\ waiters'[t] # "woken") =>
                       stop_events'[t]
                 /\ stop_events[t] => stop_events'[t]
           /\ (rec_pc = "poll" /\ rec_pc' = "closed") => stop_events[turn]
           /\ (rec_pc = "closed" /\ rec_pc' # "closed" /\ rec_chunks = 0) =>
                 /\ recorded'.kind = "raise"
                 /\ recorded'.exc = "RuntimeError"
                 /\ recorded'.msg = NoAudioMsg
                 /\ ~recorded'.wav
           /\ (rec_pc = "closed" /\ rec_pc' # "closed" /\ rec_chunks > 0) =>
                 recorded'.kind = "return" /\ recorded'.wav
         ]_vars
    /\ (OwnWaiterWoken ~> rec_pc # "poll")

\* C23's case: Enter was pressed before the callback delivered a chunk, and
\* the call has failed without a WAV file
C23_Witness ==
    /\ turn = 1
    /\ rec_pc = "idle"
    /\ waiters[1] = "ended"
    /\ stop_events[1]
    /\ rec_chunks = 0
    /\ recorded # Pending
    /\ recorded.exc = "RuntimeError"
    /\ ~recorded.wav

====
